---- MODULE Spec2Model ----
(***************************************************************************)
(* Model of the Github-Heroes generation and combat core.                  *)
(*                                                                         *)
(* Text (paths, zone names) is modelled as sequences of one-character      *)
(* strings so that split / join / lower / substring tests are computed.    *)
(* File types are atomic strings; "" stands for a missing (None or empty)  *)
(* file type, both of which are falsy in the source.                       *)
(***************************************************************************)
EXTENDS Integers, Sequences, FiniteSets, TLC

(***************************************************************************)
(* Bounds                                                                  *)
(***************************************************************************)
\* longest run of files placed in one directory of a generated tree
MaxRun == 36

(***************************************************************************)
(* Text helpers                                                            *)
(***************************************************************************)
Min(a, b) == IF a < b THEN a ELSE b
Max(a, b) == IF a > b THEN a ELSE b

\* str.lower() on one character (the upper-case letters the inputs use)
LowerChar(c) ==
    CASE c = "T" -> "t"
      [] c = "D" -> "d"
      [] c = "S" -> "s"
      [] c = "E" -> "e"
      [] c = "O" -> "o"
      [] c = "C" -> "c"
      [] OTHER -> c

Lower(s) == [i \in 1..Len(s) |-> LowerChar(s[i])]

IsSpace(c) == c \in {" ", "\t", "\n"}

RECURSIVE LStrip(_)
LStrip(s) == IF s # <<>> /\ IsSpace(Head(s)) THEN LStrip(Tail(s)) ELSE s

RECURSIVE RStrip(_)
RStrip(s) ==
    IF s # <<>> /\ IsSpace(s[Len(s)]) THEN RStrip(SubSeq(s, 1, Len(s) - 1)) ELSE s

\* str.strip()
Strip(s) == RStrip(LStrip(s))

\* sub in s
Contains(s, sub) ==
    \E i \in 1..(Len(s) - Len(sub) + 1) : SubSeq(s, i, i + Len(sub) - 1) = sub

\* position of the last "/" of s, 0 when there is none
LastSlash(s) ==
    IF \E i \in 1..Len(s) : s[i] = "/"
    THEN CHOOSE i \in 1..Len(s) : s[i] = "/" /\ \A j \in (i + 1)..Len(s) : s[j] # "/"
    ELSE 0

\* "/".join(path.split("/")[:-1]): everything before the last "/"
DropLastSegment(s) == SubSeq(s, 1, LastSlash(s) - 1)

RECURSIVE Digits(_)
\* str(n) for n >= 0
Digits(n) ==
    LET d == <<"0", "1", "2", "3", "4", "5", "6", "7", "8", "9">>
    IN  IF n < 10 THEN <<d[n + 1]>> ELSE Digits(n \div 10) \o <<d[(n % 10) + 1]>>

S_root == <<"r", "o", "o", "t">>
S_test == <<"t", "e", "s", "t">>
S_tests == <<"t", "e", "s", "t", "s">>
S_doc == <<"d", "o", "c">>
S_docs == <<"d", "o", "c", "s">>
S_src == <<"s", "r", "c">>

(***************************************************************************)
(* State                                                                   *)
(***************************************************************************)
VARIABLES
    tree_entries,   \* the list of TreeEntry handed to generate_dungeon_rooms
    gen_rooms,      \* the list generate_dungeon_rooms returned
    gen_done,       \* whether generate_dungeon_rooms has returned
    pr,             \* the PullRequestData handed to compute_pr_boss_level
    base_repo_level,\* its base_repo_level argument
    pr_level,       \* the level compute_pr_boss_level returned
    pr_done,        \* whether compute_pr_boss_level has returned
    combat_player,  \* CombatDialog.combat_player: hp, attack, defense
    enemy,          \* CombatDialog.enemy: hp, attack, defense
    buttons_enabled,\* attack_btn / defend_btn / flee_btn enabled
    battle,         \* "ongoing", or the outcome the dialog ended with
    last,           \* what the last call of combat_turn was given and returned
    worlds,         \* table repo_worlds
    enemies,        \* table enemies
    rooms,          \* table dungeon_rooms
    quests,         \* table quests
    next_id,        \* the AUTOINCREMENT counter of each table
    pc,             \* position of each ScrapingThread in build_repo_world
    loc,            \* the local variables of each running build_repo_world
    progress_dialog,\* MainWindow.progress_dialog: "none", "shown" or "hidden"
    auto_refresh,   \* the setting "auto_refresh"
    view,           \* MainWindow.stacked_widget's current index
    faults,         \* how many more times, in this run of the program, a
                    \* secondary fetch comes back empty or an operation
                    \* raises
    remote_tree,    \* the file listing GitHub serves for the repository
    dialog,         \* what the open CombatDialog was created for
    battles,        \* how many CombatDialogs have been opened
    items,          \* table items
    inventory,      \* table player_inventory
    player,         \* the Player object held by game_state
    players,        \* table players
    ret,            \* what the last call of a game-logic function returned
    calls           \* how many calls of the game-logic functions were made

vars == <<tree_entries, gen_rooms, gen_done, pr, base_repo_level, pr_level,
          pr_done, combat_player, enemy, buttons_enabled, battle, last,
          worlds, enemies, rooms, quests, next_id, pc, loc, progress_dialog,
          auto_refresh, view, faults, remote_tree, dialog, battles, items,
          inventory, player, players, ret, calls>>

storeVars == <<worlds, enemies, rooms, quests, next_id>>
buildVars == <<storeVars, pc, loc, progress_dialog, auto_refresh, view,
               faults, remote_tree>>

roomsVars == <<tree_entries, gen_rooms, gen_done>>
prVars == <<pr, base_repo_level, pr_level, pr_done>>
combatVars == <<combat_player, enemy, buttons_enabled, battle, last, dialog,
                battles>>
gameVars == <<items, inventory, player, players, ret, calls>>

\* an Optional[int]: <<>> is None, <<n>> is the integer n
None == <<>>
Some(n) == <<n>>
\* Python truthiness of an Optional[int]
Truthy(o) == o # None /\ o[1] # 0

\* no CombatDialog is open
NoDialog ==
    [kind |-> "none", id |-> 0, loot_quality |-> 1, bonus_hp |-> 0,
     turn_count |-> 0]

\* no Player object is loaded
NoPlayer ==
    [id |-> 0, level |-> 1, xp |-> 0, hp |-> 1, attack |-> 0, defense |-> 0,
     speed |-> 0, luck |-> 0]

\* no game-logic function has returned
NoReturn == [of |-> "none"]

NoTurn ==
    [action |-> "none", v_player |-> 0, v_enemy |-> 0, flee_ok |-> FALSE,
     player_before |-> 0, enemy_before |-> 0, continues |-> TRUE,
     result |-> "none"]

\* most builds (ScrapingThread objects) started in one run of the program
MaxBuilds == 2
Threads == 1..MaxBuilds

\* the locals of a build that is not running
NoLocals ==
    [existing |-> FALSE, world |-> [id |-> 0, main_enemy_id |-> 0],
     tree |-> <<>>, main_level |-> 0, old_rooms |-> <<>>, new_rooms |-> <<>>,
     n_rooms |-> 0, result |-> "none", failed |-> "none", soft |-> FALSE,
     ran |-> <<>>, percents |-> <<>>]

BuildIdle ==
    /\ worlds = {}
    /\ enemies = {}
    /\ rooms = {}
    /\ quests = {}
    /\ next_id = [world |-> 1, enemy |-> 1, room |-> 1, quest |-> 1,
                 item |-> 1]
    /\ pc = [t \in Threads |-> "idle"]
    /\ loc = [t \in Threads |-> NoLocals]
    /\ progress_dialog = "none"
    /\ auto_refresh = FALSE
    /\ view = 0
    /\ faults = 0
    /\ remote_tree = <<>>

RoomsIdle == tree_entries = <<>> /\ gen_rooms = <<>> /\ gen_done = FALSE

PRIdle ==
    /\ pr = [comment_count |-> 0, additions |-> None, deletions |-> None]
    /\ base_repo_level = 1
    /\ pr_level = 0
    /\ pr_done = FALSE

CombatIdle ==
    /\ combat_player = [hp |-> 1, attack |-> 1, defense |-> 0]
    /\ enemy = [hp |-> 1, attack |-> 1, defense |-> 0]
    /\ buttons_enabled = FALSE
    /\ battle = "none"
    /\ last = NoTurn
    /\ dialog = NoDialog
    /\ battles = 0

GameIdle ==
    /\ items = {}
    /\ inventory = {}
    /\ player = NoPlayer
    /\ players = {}
    /\ ret = NoReturn
    /\ calls = 0

(***************************************************************************)
(* Dungeon generator                                                       *)
(***************************************************************************)
CodeTypes == {"py", "js", "ts", "java", "cpp", "c"}
DocTypes == {"md", "txt"}
ConfigTypes == {"json", "yml", "yaml", "toml"}

\* room.zone_name
ZoneName(path) ==
    IF Contains(path, <<"/">>) THEN DropLastSegment(path) ELSE S_root

\* base danger from the running file count of the zone
BaseDanger(k) == Min(1 + (k \div 5), 10)

\* file-type adjustment
FileTypeDanger(d, file_type) ==
    IF file_type # ""
    THEN IF file_type \in CodeTypes THEN d + 1
         ELSE IF file_type \in DocTypes THEN Max(1, d - 1)
         ELSE d
    ELSE d

\* the 'doc' adjustment made before the 'test' adjustment
ZoneDanger_DocFirst(d, zone_name) ==
    LET z == Lower(zone_name)
        d1 == IF Contains(z, S_doc) \/ Contains(z, S_docs) THEN Max(1, d - 1) ELSE d
    IN  IF Contains(z, S_test) \/ Contains(z, S_tests) THEN d1 + 2 ELSE d1

\* special-zone adjustment: 'test' first, then 'doc'
ZoneDanger(d, zone_name) ==
    LET z == Lower(zone_name)
        d1 == IF Contains(z, S_test) \/ Contains(z, S_tests) THEN d + 2 ELSE d
    IN  IF Contains(z, S_doc) \/ Contains(z, S_docs) THEN Max(1, d1 - 1) ELSE d1

\* danger_level of the k-th file of its zone
DangerLevel(k, file_type, zone_name) ==
    ZoneDanger(FileTypeDanger(BaseDanger(k), file_type), zone_name)

\* zone_file_counts[zone] with the dict's "not in" default
ZoneCount(counts, zone) == IF zone \in DOMAIN counts THEN counts[zone] ELSE 0

RECURSIVE GenRoomsLoop(_, _, _, _)
GenRoomsLoop(entries, i, counts, world_id) ==
    IF i > Len(entries) THEN <<>>
    ELSE LET e == entries[i]
         IN  IF e.is_dir \/ e.path = <<>> \/ Strip(e.path) = <<>>
             THEN GenRoomsLoop(entries, i + 1, counts, world_id)
             ELSE LET zone == ZoneName(e.path)
                      k == ZoneCount(counts, zone) + 1
                      counts2 == [z \in DOMAIN counts \cup {zone} |->
                                     IF z = zone THEN k ELSE counts[z]]
                      room == [world_id |-> world_id,
                               zone_name |-> zone,
                               file_path |-> e.path,
                               danger_level |-> DangerLevel(k, e.file_type, zone),
                               loot_quality |-> e.roll,
                               visited |-> FALSE]
                  IN  <<room>> \o GenRoomsLoop(entries, i + 1, counts2, world_id)

\* generate_dungeon_rooms; base_loot is computed from stars and health_state
\* and never read, so neither parameter influences the rooms.  The outcome
\* of the loot-quality draw made for an entry travels with the entry (roll).
generate_dungeon_rooms(entries, world_id) ==
    GenRoomsLoop(entries, 1, <<>>, world_id)

(***************************************************************************)
(* Inputs of the dungeon generator                                         *)
(***************************************************************************)
Dirs == { <<>>, S_src, S_tests, S_docs,
          <<"l", "i", "b", "/", "T", "e", "s", "t">>,
          <<"d", "o", "c", "t", "e", "s", "t">> }
FileTypes == {"", "py", "md", "json"}
Rolls == {1, 6}

FilePath(dir, n) ==
    (IF dir = <<>> THEN <<>> ELSE dir \o <<"/">>) \o <<"f">> \o Digits(n)

FileEntry(dir, n, ft, roll) ==
    [path |-> FilePath(dir, n), is_dir |-> FALSE, file_type |-> ft, roll |-> roll]

\* n files f1..fn of one type in one directory
FileRun(dir, n, ft, roll) == [i \in 1..n |-> FileEntry(dir, i, ft, roll)]

ExtraEntries ==
    { <<>>,
      <<[path |-> S_src, is_dir |-> TRUE, file_type |-> "", roll |-> 1]>>,
      <<[path |-> <<" ">>, is_dir |-> FALSE, file_type |-> "", roll |-> 1]>>,
      <<[path |-> <<>>, is_dir |-> FALSE, file_type |-> "py", roll |-> 1]>>,
      <<FileEntry(S_tests, 1, "py", 1)>>,
      <<FileEntry(S_src, 1, "md", 1)>> }

InitRooms ==
    /\ \E dir \in Dirs, n \in 0..MaxRun, ft \in FileTypes, roll \in Rolls,
          extra \in ExtraEntries :
          tree_entries = extra \o FileRun(dir, n, ft, roll)
    /\ gen_rooms = <<>>
    /\ gen_done = FALSE
    /\ PRIdle
    /\ CombatIdle
    /\ BuildIdle
    /\ GameIdle

GenerateRooms ==
    /\ ~gen_done
    /\ gen_rooms' = generate_dungeon_rooms(tree_entries, 1)
    /\ gen_done' = TRUE
    /\ UNCHANGED <<tree_entries, prVars, combatVars, buildVars, gameVars>>

NextRooms == GenerateRooms

SpecRooms == InitRooms /\ [][NextRooms]_vars

(***************************************************************************)
(* PR boss level                                                           *)
(***************************************************************************)
\* the tiers tested smallest first: a diff above 1000 stops at the 500 tier
DiffTierBonus_SmallestFirst(total_changes) ==
    IF total_changes > 100 /\ total_changes <= 500 THEN 2
    ELSE IF total_changes > 500 THEN 5
    ELSE IF total_changes > 1000 THEN 10
    ELSE 0

\* tier bonus from the total diff size
DiffTierBonus(total_changes) ==
    IF total_changes > 1000 THEN 10
    ELSE IF total_changes > 500 THEN 5
    ELSE IF total_changes > 100 THEN 2
    ELSE 0

\* the "if pr.additions and pr.deletions" block
DiffBonus(additions, deletions) ==
    IF Truthy(additions) /\ Truthy(deletions)
    THEN DiffTierBonus(additions[1] + deletions[1])
    ELSE 0

\* the cap relative to the repository level is missing
compute_pr_boss_level_NoCap(p, base) ==
    Max(1, base \div 2) + (p.comment_count \div 3)
        + DiffBonus(p.additions, p.deletions)

compute_pr_boss_level(p, base) ==
    LET level == Max(1, base \div 2) + (p.comment_count \div 3)
                     + DiffBonus(p.additions, p.deletions)
        max_level == Min(base + 10, 50)
    IN  Min(level, max_level)

CommentCounts == {0, 2, 9, 200}
DiffSizes == {None, Some(0), Some(60), Some(600), Some(2000)}
BaseLevels == {1, 2, 20, 45, 100}

InitPR ==
    /\ pr \in [comment_count : CommentCounts, additions : DiffSizes,
               deletions : DiffSizes]
    /\ base_repo_level \in BaseLevels
    /\ pr_level = 0
    /\ pr_done = FALSE
    /\ RoomsIdle
    /\ CombatIdle
    /\ BuildIdle
    /\ GameIdle

ComputePRBossLevel ==
    /\ ~pr_done
    /\ pr_level' = compute_pr_boss_level(pr, base_repo_level)
    /\ pr_done' = TRUE
    /\ UNCHANGED <<pr, base_repo_level, roomsVars, combatVars, buildVars,
                 gameVars>>

NextPR == ComputePRBossLevel

SpecPR == InitPR /\ [][NextPR]_vars

(***************************************************************************)
(* Combat resolver                                                         *)
(***************************************************************************)
\* the final clamp is missing: a low variance draw can take the damage to 0
\* or below
calculate_damage_NoFloor(attacker_attack, defender_defense, v) ==
    Max(1, attacker_attack - (defender_defense \div 2)) + v

\* one clamp only, applied after the variance
calculate_damage_SingleClamp(attacker_attack, defender_defense, v) ==
    Max(1, attacker_attack - (defender_defense \div 2) + v)

\* calculate_damage with the outcome v of random.randint(-2, 2)
calculate_damage(attacker_attack, defender_defense, v) ==
    LET base_damage == Max(1, attacker_attack - (defender_defense \div 2))
    IN  Max(1, base_damage + v)

Variance == -2..2

\* the enemy strikes back even when the player's hit killed it
AttackTurn_CounterAlways(p, e, v_player, v_enemy) ==
    LET e_hp == e.hp - Max(1, Max(1, p.attack - (e.defense \div 2)) + v_player)
        p_hp == p.hp - Max(1, Max(1, e.attack - (p.defense \div 2)) + v_enemy)
    IN  IF e_hp <= 0
        THEN [player_hp |-> p_hp, enemy_hp |-> e_hp, continues |-> FALSE,
              result |-> "victory"]
        ELSE IF p_hp <= 0
        THEN [player_hp |-> p_hp, enemy_hp |-> e_hp, continues |-> FALSE,
              result |-> "defeat"]
        ELSE [player_hp |-> p_hp, enemy_hp |-> e_hp, continues |-> TRUE,
              result |-> "none"]

\* the "attack" branch of combat_turn
AttackTurn(p, e, v_player, v_enemy) ==
    LET e_hp == e.hp - calculate_damage(p.attack, e.defense, v_player)
        p_hp == p.hp - calculate_damage(e.attack, p.defense, v_enemy)
    IN  IF e_hp <= 0
        THEN [player_hp |-> p.hp, enemy_hp |-> e_hp, continues |-> FALSE,
              result |-> "victory"]
        ELSE IF p_hp <= 0
        THEN [player_hp |-> p_hp, enemy_hp |-> e_hp, continues |-> FALSE,
              result |-> "defeat"]
        ELSE [player_hp |-> p_hp, enemy_hp |-> e_hp, continues |-> TRUE,
              result |-> "none"]

\* defending does not double the player's defense
DefendTurn_NoDoubling(p, e, v_enemy) ==
    LET p_hp == p.hp - Max(1, Max(1, e.attack - (p.defense \div 2)) + v_enemy)
    IN  IF p_hp <= 0
        THEN [player_hp |-> p_hp, enemy_hp |-> e.hp, continues |-> FALSE,
              result |-> "defeat"]
        ELSE [player_hp |-> p_hp, enemy_hp |-> e.hp, continues |-> TRUE,
              result |-> "none"]

\* the "defend" branch of combat_turn
DefendTurn(p, e, v_enemy) ==
    LET p_hp == p.hp - calculate_damage(e.attack, p.defense * 2, v_enemy)
    IN  IF p_hp <= 0
        THEN [player_hp |-> p_hp, enemy_hp |-> e.hp, continues |-> FALSE,
              result |-> "defeat"]
        ELSE [player_hp |-> p_hp, enemy_hp |-> e.hp, continues |-> TRUE,
              result |-> "none"]

\* the "flee" branch of combat_turn; flee_ok is random.random() < 0.7
FleeTurn(p, e, flee_ok, v_enemy) ==
    LET p_hp == p.hp - calculate_damage(e.attack, p.defense, v_enemy)
    IN  IF flee_ok
        THEN [player_hp |-> p.hp, enemy_hp |-> e.hp, continues |-> FALSE,
              result |-> "fled"]
        ELSE IF p_hp <= 0
        THEN [player_hp |-> p_hp, enemy_hp |-> e.hp, continues |-> FALSE,
              result |-> "defeat"]
        ELSE [player_hp |-> p_hp, enemy_hp |-> e.hp, continues |-> TRUE,
              result |-> "none"]

\* combat_turn: the new hp of both sides, combat_continues and result
combat_turn(p, e, action, v_player, v_enemy, flee_ok) ==
    CASE action = "attack" -> AttackTurn(p, e, v_player, v_enemy)
      [] action = "defend" -> DefendTurn(p, e, v_enemy)
      [] action = "flee" -> FleeTurn(p, e, flee_ok, v_enemy)
      [] OTHER -> [player_hp |-> p.hp, enemy_hp |-> e.hp, continues |-> TRUE,
                   result |-> "none"]

(***************************************************************************)
(* Inventory: ItemRepository over the tables items and player_inventory    *)
(***************************************************************************)
EquipmentTypes == {"weapon", "shield", "armor", "ring", "amulet", "boots"}

NoBonus == [hp |-> 0, attack |-> 0, defense |-> 0, speed |-> 0, luck |-> 0]

\* largest quantity of one inventory row
MaxQuantity == 2
\* most rows of player_inventory
MaxRows == 3

\* the items of the inventory runs: two weapons, a shield and an item
\* created before the equipment_type column existed ("" is NULL)
Catalogue ==
    {[id |-> 1, equipment_type |-> "weapon", stat_bonuses |-> NoBonus],
     [id |-> 2, equipment_type |-> "weapon", stat_bonuses |-> NoBonus],
     [id |-> 3, equipment_type |-> "shield", stat_bonuses |-> NoBonus],
     [id |-> 4, equipment_type |-> "", stat_bonuses |-> NoBonus]}

\* WHERE player_id = ? AND item_id = ?
IsRow(r, player_id, item_id) == r.player_id = player_id /\ r.item_id = item_id

\* UPDATE player_inventory SET equipped = ? WHERE player_id = ? AND item_id = ?
SetEquipped(inv, player_id, item_id, value) ==
    {IF IsRow(r, player_id, item_id) THEN [r EXCEPT !.equipped = value] ELSE r :
       r \in inv}

\* ItemRepository.add_to_inventory: INSERT ... ON CONFLICT DO UPDATE
add_to_inventory(inv, player_id, item_id, quantity) ==
    IF \E r \in inv : IsRow(r, player_id, item_id)
    THEN {IF IsRow(r, player_id, item_id)
          THEN [r EXCEPT !.quantity = @ + quantity] ELSE r : r \in inv}
    ELSE inv \cup {[player_id |-> player_id, item_id |-> item_id,
                    quantity |-> quantity, equipped |-> FALSE]}

\* equip_item without its first UPDATE
UnequipSameType_Keep(inv, its, player_id, item_id, equipment_type) == inv

\* the first UPDATE of equip_item: unequip the player's equipped items of
\* that equipment type, the item being equipped excepted
UnequipSameType(inv, its, player_id, item_id, equipment_type) ==
    LET same == {r.item_id : r \in
                   {x \in inv : /\ x.player_id = player_id
                                /\ x.equipped
                                /\ \E i \in its :
                                     /\ i.id = x.item_id
                                     /\ i.equipment_type = equipment_type}}
    IN  {IF r.player_id = player_id /\ r.item_id # item_id /\ r.item_id \in same
         THEN [r EXCEPT !.equipped = FALSE] ELSE r : r \in inv}

\* ItemRepository.equip_item
equip_item(inv, its, player_id, item_id) ==
    LET found == {i \in its : i.id = item_id}
        item == CHOOSE i \in found : TRUE
    IN  IF found = {} \/ item.equipment_type = ""
        THEN SetEquipped(inv, player_id, item_id, TRUE)
        ELSE SetEquipped(UnequipSameType(inv, its, player_id, item_id,
                                         item.equipment_type),
                         player_id, item_id, TRUE)

\* the row is kept when the whole quantity is removed
remove_from_inventory_KeepRow(inv, player_id, item_id, quantity) ==
    IF \E r \in inv : IsRow(r, player_id, item_id)
    THEN LET row == CHOOSE r \in inv : IsRow(r, player_id, item_id)
         IN  (inv \ {row}) \cup {[row EXCEPT !.quantity = @ - quantity]}
    ELSE inv

\* ItemRepository.remove_from_inventory
remove_from_inventory(inv, player_id, item_id, quantity) ==
    IF \E r \in inv : IsRow(r, player_id, item_id)
    THEN LET row == CHOOSE r \in inv : IsRow(r, player_id, item_id)
         IN  IF row.quantity <= quantity
             THEN inv \ {row}
             ELSE (inv \ {row}) \cup {[row EXCEPT !.quantity = @ - quantity]}
    ELSE inv

\* ItemRepository.get_inventory_count
get_inventory_count(inv, player_id) ==
    Cardinality({r \in inv : r.player_id = player_id})

AddToInventory(player_id, item_id, quantity) ==
    /\ inventory' = add_to_inventory(inventory, player_id, item_id, quantity)
    /\ Cardinality(inventory') <= MaxRows
    /\ \A r \in inventory' : r.quantity <= MaxQuantity
    /\ UNCHANGED <<items, player, players, ret, calls, roomsVars, prVars,
                   combatVars, buildVars>>

EquipItem(player_id, item_id) ==
    /\ inventory' = equip_item(inventory, items, player_id, item_id)
    /\ UNCHANGED <<items, player, players, ret, calls, roomsVars, prVars,
                   combatVars, buildVars>>

\* ItemRepository.unequip_item
UnequipItem(player_id, item_id) ==
    /\ inventory' = SetEquipped(inventory, player_id, item_id, FALSE)
    /\ UNCHANGED <<items, player, players, ret, calls, roomsVars, prVars,
                   combatVars, buildVars>>

RemoveFromInventory(player_id, item_id, quantity) ==
    /\ inventory' = remove_from_inventory(inventory, player_id, item_id,
                                          quantity)
    /\ UNCHANGED <<items, player, players, ret, calls, roomsVars, prVars,
                   combatVars, buildVars>>

InitInventory ==
    /\ items = Catalogue
    /\ inventory \in {{}, {[player_id |-> 1, item_id |-> 1, quantity |-> 2,
                            equipped |-> TRUE]}}
    /\ player = NoPlayer
    /\ players = {}
    /\ ret = NoReturn
    /\ calls = 0
    /\ RoomsIdle
    /\ PRIdle
    /\ CombatIdle
    /\ BuildIdle

\* two players; the item ids handed to equip, unequip and remove are those
\* of the catalogue and one, 5, that names no item
NextInventory ==
    \E player_id \in {1, 2} :
      \/ \E item_id \in 1..5 : UnequipItem(player_id, item_id)
      \/ \E item_id \in 1..5, quantity \in 1..2 :
           RemoveFromInventory(player_id, item_id, quantity)
      \/ \E i \in Catalogue, quantity \in 1..2 :
           AddToInventory(player_id, i.id, quantity)
      \/ \E item_id \in 1..5 : EquipItem(player_id, item_id)

SpecInventory == InitInventory /\ [][NextInventory]_vars

(***************************************************************************)
(* Game rules: experience, loot, victory and defeat                        *)
(***************************************************************************)
\* most calls of the game-logic functions in one run
MaxCalls == 2

\* PlayerRepository.update: UPDATE players SET ... WHERE id = ?
PlayerUpdate(pls, p) == {IF r.id = p.id THEN p ELSE r : r \in pls}

calculate_inventory_space_PerLevel(level) == 10 + level

calculate_inventory_space(level) == 10 + ((level \div 10) * 10)

calculate_xp_reward(e) ==
    LET base_xp == e.level * 10
    IN  IF e.is_boss THEN base_xp * 3 ELSE base_xp

\* one level at most
LevelUp_Once(p, leveled_up) ==
    IF p.xp >= p.level * 100
    THEN [player |-> [p EXCEPT !.xp = @ - (p.level * 100), !.level = @ + 1,
                               !.hp = @ + 10, !.attack = @ + 2,
                               !.defense = @ + 1, !.speed = @ + 1,
                               !.luck = @ + 1],
          leveled_up |-> TRUE]
    ELSE [player |-> p, leveled_up |-> leveled_up]

RECURSIVE LevelUp(_, _)
\* the while loop of award_xp
LevelUp(p, leveled_up) ==
    IF p.xp >= p.level * 100
    THEN LevelUp([p EXCEPT !.xp = @ - (p.level * 100), !.level = @ + 1,
                           !.hp = @ + 10, !.attack = @ + 2, !.defense = @ + 1,
                           !.speed = @ + 1, !.luck = @ + 1], TRUE)
    ELSE [player |-> p, leveled_up |-> leveled_up]

\* award_xp: the player object, the table players and the value returned
award_xp(p, xp, pls) ==
    LET r == LevelUp([p EXCEPT !.xp = @ + xp], FALSE)
    IN  [player |-> r.player,
         players |-> IF r.leveled_up THEN PlayerUpdate(pls, r.player) ELSE pls,
         leveled_up |-> r.leveled_up]

\* generate_loot with the outcomes of its random choices: the item type and
\* the stat picked for each of the loot_quality * 2 bonus points.  Name,
\* rarity and description of the item are left out.
generate_loot(loot_quality, equipment_type, choices) ==
    [equipment_type |-> equipment_type,
     stat_bonuses |->
       [s \in {"hp", "attack", "defense", "speed", "luck"} |->
          Cardinality({k \in 1..(loot_quality * 2) : choices[k] = s})]]

\* what random gives one call of handle_victory: whether loot drops
\* (random() < 0.2), the item type and the stat choices
LootRolls ==
    {[drop |-> FALSE, equipment_type |-> "weapon", stat |-> "hp"],
     [drop |-> TRUE, equipment_type |-> "weapon", stat |-> "hp"],
     [drop |-> TRUE, equipment_type |-> "shield", stat |-> "attack"]}

\* handle_victory: the player object, the tables and the tuple returned
handle_victory(p, e, loot_quality, roll, pls, its, inv, next_item) ==
    LET xp == calculate_xp_reward(e)
        a == award_xp(p, xp, pls)
        loot == generate_loot(loot_quality, roll.equipment_type,
                              [k \in 1..(loot_quality * 2) |-> roll.stat])
        created == [id |-> next_item,
                    equipment_type |-> loot.equipment_type,
                    stat_bonuses |-> loot.stat_bonuses]
    IN  IF roll.drop /\ get_inventory_count(inv, a.player.id)
                          >= calculate_inventory_space(a.player.level)
        THEN [player |-> a.player, players |-> a.players, items |-> its,
              inventory |-> inv, next_item |-> next_item, loot |-> None,
              xp |-> xp, leveled_up |-> a.leveled_up]
        ELSE IF roll.drop
        THEN [player |-> a.player,
              players |-> PlayerUpdate(a.players, a.player),
              items |-> its \cup {created},
              inventory |-> add_to_inventory(inv, a.player.id, next_item, 1),
              next_item |-> next_item + 1, loot |-> <<created>>,
              xp |-> xp, leveled_up |-> a.leveled_up]
        ELSE [player |-> a.player,
              players |-> PlayerUpdate(a.players, a.player),
              items |-> its, inventory |-> inv, next_item |-> next_item,
              loot |-> None, xp |-> xp, leveled_up |-> a.leveled_up]

\* the xp penalty without its cap
handle_defeat_NoCap(p, pls) ==
    LET max_hp == (p.level * 10) + 90
        xp_loss == p.level * 10
        q == [p EXCEPT !.xp = @ - xp_loss, !.hp = Max(1, max_hp \div 2)]
    IN  [player |-> q, players |-> PlayerUpdate(pls, q), xp_lost |-> xp_loss]

\* handle_defeat
handle_defeat(p, pls) ==
    LET max_hp == (p.level * 10) + 90
        xp_loss == Min(p.xp, p.level * 10)
        q == [p EXCEPT !.xp = Max(0, @ - xp_loss), !.hp = Max(1, max_hp \div 2)]
    IN  [player |-> q, players |-> PlayerUpdate(pls, q), xp_lost |-> xp_loss]

\* restore_player_hp
restore_player_hp(p, pls) ==
    LET max_hp == (p.level * 10) + 90
        q == [p EXCEPT !.hp = max_hp]
    IN  IF p.hp < max_hp
        THEN [player |-> q, players |-> PlayerUpdate(pls, q)]
        ELSE [player |-> p, players |-> pls]


(***************************************************************************)
(* CombatDialog                                                            *)
(***************************************************************************)

\* the buttons are left enabled when the battle has ended
ButtonsAfterTurn_NeverDisabled(continues) == TRUE

\* the enabled state of the three action buttons after a turn
ButtonsAfterTurn(continues) == continues

Actions == {"attack", "defend", "flee"}

\* largest hit points a fighter enters a battle with
MaxHp == 6
HpValues == {1, 3, MaxHp}
AttackValues == {1, 4}
DefenseValues == {2, 12}

InitCombat ==
    /\ combat_player \in [hp : HpValues, attack : AttackValues,
                          defense : DefenseValues]
    /\ enemy \in [hp : HpValues, attack : AttackValues, defense : DefenseValues,
                   level : {1}, is_boss : {FALSE}]
    /\ buttons_enabled = TRUE
    /\ battle = "ongoing"
    /\ last = NoTurn
    /\ dialog = [kind |-> "quest", id |-> 1, loot_quality |-> 1,
                 bonus_hp |-> 0, turn_count |-> 0]
    /\ battles = 1
    /\ player = [id |-> 1, level |-> 1, xp |-> 0, hp |-> combat_player.hp,
                 attack |-> combat_player.attack,
                 defense |-> combat_player.defense, speed |-> 8, luck |-> 5]
    /\ players = {player}
    /\ items = {}
    /\ inventory = {}
    /\ ret = NoReturn
    /\ calls = 0
    /\ RoomsIdle
    /\ PRIdle
    /\ BuildIdle

\* the room marked whatever the outcome
RoomsAfter_AnyResult(d, result) ==
    IF d.kind = "room" /\ result # "none"
    THEN {IF r.id = d.id THEN [r EXCEPT !.visited = TRUE] ELSE r : r \in rooms}
    ELSE rooms

\* on_room_combat_ended, the slot connected to combat_ended for a room
RoomsAfter(d, result) ==
    IF d.kind = "room" /\ result = "victory"
    THEN {IF r.id = d.id THEN [r EXCEPT !.visited = TRUE] ELSE r : r \in rooms}
    ELSE rooms

\* the base player's hp carried out of a finished battle with damage written
\* through
HpCarried_Through(hp, bonus_hp) == hp - bonus_hp

\* the base player's hp carried out of a finished battle
HpCarried(hp, bonus_hp) == Max(1, hp - bonus_hp)

\* CombatDialog.execute_action, reached through the clicked signal of an
\* enabled button, with what it calls when the battle ends: handle_victory
\* or handle_defeat, PlayerRepository.update and the slot of combat_ended
\* (on_combat_ended for a quest)
ExecuteAction(action) ==
    /\ buttons_enabled
    /\ \E v_player \in (IF action = "attack" THEN Variance ELSE {0}),
          v_enemy \in Variance,
          flee_ok \in (IF action = "flee" THEN BOOLEAN ELSE {FALSE}) :
         \E r \in {combat_turn(combat_player, enemy, action, v_player, v_enemy,
                              flee_ok)} :
         LET ended == IF r.continues THEN "none" ELSE r.result
             base == [player EXCEPT !.hp = HpCarried(r.player_hp, dialog.bonus_hp)]
         IN  /\ combat_player' = [combat_player EXCEPT !.hp = r.player_hp]
             /\ enemy' = [enemy EXCEPT !.hp = r.enemy_hp]
             /\ buttons_enabled' = (buttons_enabled /\ ButtonsAfterTurn(r.continues))
             /\ battle' = IF r.continues THEN battle
                          ELSE IF r.result \in {"victory", "defeat", "fled"}
                               THEN r.result ELSE battle
             /\ last' = [action |-> action,
                         v_player |-> v_player,
                         v_enemy |-> v_enemy,
                         flee_ok |-> flee_ok,
                         player_before |-> combat_player.hp,
                         enemy_before |-> enemy.hp,
                         continues |-> r.continues,
                         result |-> r.result]
             /\ dialog' = [dialog EXCEPT !.turn_count = @ + 1]
             /\ quests' = IF dialog.kind = "quest" /\ ended = "victory"
                          THEN {IF q.id = dialog.id
                                THEN [q EXCEPT !.status = "completed"] ELSE q :
                                  q \in quests}
                          ELSE quests
             /\ rooms' = RoomsAfter(dialog, ended)
             /\ CASE ended = "victory" ->
                       \E roll \in LootRolls :
                       \E v \in {handle_victory(base, enemy', dialog.loot_quality,
                                                roll, players, items, inventory,
                                                next_id.item)} :
                             /\ player' = v.player
                             /\ players' = PlayerUpdate(v.players, v.player)
                             /\ items' = v.items
                             /\ inventory' = v.inventory
                             /\ next_id' = [next_id EXCEPT !.item = v.next_item]
                             /\ ret' = [of |-> "handle_victory", before |-> base,
                                        items_before |-> items,
                                        inventory_before |-> inventory,
                                        enemy |-> enemy', generated |-> roll.drop,
                                        loot |-> v.loot, xp |-> v.xp,
                                        leveled_up |-> v.leveled_up]
                  [] ended = "defeat" ->
                       \E d \in {handle_defeat(base, players)} :
                           /\ player' = d.player
                           /\ players' = PlayerUpdate(d.players, d.player)
                           /\ ret' = [of |-> "handle_defeat", before |-> base,
                                      xp_lost |-> d.xp_lost]
                           /\ UNCHANGED <<items, inventory, next_id>>
                  [] OTHER ->
                       UNCHANGED <<player, players, items, inventory, next_id,
                                   ret>>
    /\ UNCHANGED <<worlds, enemies, pc, loc, progress_dialog, auto_refresh,
                   view, faults, remote_tree, battles, calls, roomsVars, prVars>>

Attack == ExecuteAction("attack")
Defend == ExecuteAction("defend")
Flee == ExecuteAction("flee")

NextCombat == Attack \/ Defend \/ Flee

SpecCombat == InitCombat /\ [][NextCombat]_vars

(***************************************************************************)
(* World orchestrator                                                      *)
(***************************************************************************)
\* the one repository the builds are for
FullName == "owner/repo"

\* compute_issue_difficulty
compute_issue_difficulty(issue) ==
    LET d0 == 1 + (issue.comment_count \div 2)
        d1 == IF "bug" \in issue.labels THEN d0 + 2 ELSE d0
        d2 == IF "enhancement" \in issue.labels \/ "feature" \in issue.labels
              THEN d1 + 1 ELSE d1
        d3 == IF ~issue.is_open THEN d2 + 1 ELSE d2
    IN  Min(d3, 20)

\* seq[:n]
Take(seq, n) == SubSeq(seq, 1, Min(n, Len(seq)))

RECURSIVE DedupLoop(_, _, _)
DedupLoop(rs, i, seen_paths) ==
    IF i > Len(rs) THEN <<>>
    ELSE IF rs[i].file_path \notin seen_paths
         THEN <<rs[i]>> \o DedupLoop(rs, i + 1, seen_paths \cup {rs[i].file_path})
         ELSE DedupLoop(rs, i + 1, seen_paths)

\* no deduplication: every generated room is created
DedupByPath_Keep(rs) == rs

\* unique_rooms: the first room of each file_path, in order
DedupByPath(rs) == DedupLoop(rs, 1, {})

\* a build that cannot fetch or parse the home page goes on regardless
AfterFetch_NoReturn(ok, next) == next

\* the early returns of the fetch and parse stages
AfterFetch(ok, next) == IF ok THEN next ELSE "returned"

RECURSIVE SetToSeq(_)
\* the ids of a result set in rowid order
SetToSeq(ids) ==
    IF ids = {} THEN <<>>
    ELSE LET m == CHOOSE x \in ids : \A y \in ids : x <= y
         IN  <<m>> \o SetToSeq(ids \ {m})

\* inputs: what the scraper and the parsers hand to a build
F_a == [path |-> <<"a">>, is_dir |-> FALSE, file_type |-> "py", roll |-> 1]
F_b == [path |-> <<"s", "/", "b">>, is_dir |-> FALSE, file_type |-> "md", roll |-> 2]
D_s == [path |-> <<"s">>, is_dir |-> TRUE, file_type |-> "", roll |-> 1]
\* most faults (empty secondary fetches, raised exceptions) of one run
MaxFaults == 1

\* most files of one fetched tree
MaxRooms == 11
BuildTrees ==
    { <<>>, <<F_a>>, <<D_s, F_b>>, <<F_a, F_b, F_a>>,
      FileRun(S_src, MaxRooms, "md", 1) }
MainLevels == {1, 20}
Issue1 == [issue_number |-> 1, comment_count |-> 4, labels |-> {"bug"},
           is_open |-> TRUE]
IssueLists == { <<>>, <<Issue1>> }
Pull2 == [pr_number |-> 2, comment_count |-> 9, additions |-> Some(600),
          deletions |-> Some(600)]
PullLists == { <<>>, <<Pull2>> }

InitBuild ==
    /\ worlds = {}
    /\ enemies = {}
    /\ rooms = {}
    /\ quests = {}
    /\ next_id = [world |-> 1, enemy |-> 1, room |-> 1, quest |-> 1,
                 item |-> 1]
    /\ pc = [t \in Threads |-> "idle"]
    /\ loc = [t \in Threads |-> NoLocals]
    /\ progress_dialog = "none"
    /\ auto_refresh \in BOOLEAN
    /\ view = 0
    /\ faults \in 0..MaxFaults
    /\ remote_tree \in BuildTrees
    /\ RoomsIdle
    /\ PRIdle
    /\ CombatIdle
    /\ GameIdle

\* the next ScrapingThread object
NextThread == CHOOSE t \in Threads : pc[t] = "idle" /\ \A u \in Threads : pc[u] = "idle" => t <= u

\* the modal progress dialog, while shown, keeps input from the main window
MainWindowAcceptsInput == progress_dialog # "shown"

\* MainWindow.on_repo_selected: show the progress dialog, start a thread
StartScraping ==
    /\ \E t \in Threads : pc[t] = "idle"
    /\ pc' = [pc EXCEPT ![NextThread] = "init"]
    /\ progress_dialog' = "shown"
    /\ UNCHANGED <<storeVars, loc, auto_refresh, faults, remote_tree>>

\* SearchPanel.repo_selected
OnRepoSelected ==
    /\ MainWindowAcceptsInput
    /\ StartScraping
    /\ UNCHANGED <<view, roomsVars, prVars, combatVars, gameVars>>

\* MainWindow.on_refresh_world
OnRefreshWorld ==
    /\ MainWindowAcceptsInput
    /\ worlds # {}
    /\ StartScraping
    /\ UNCHANGED <<view, roomsVars, prVars, combatVars, gameVars>>

\* MainWindow.on_enter_dungeon
OnEnterDungeon ==
    /\ MainWindowAcceptsInput
    /\ worlds # {}
    /\ IF auto_refresh
       THEN StartScraping /\ UNCHANGED view
       ELSE /\ view # 2
            /\ view' = 2
            /\ UNCHANGED <<storeVars, pc, loc, progress_dialog, auto_refresh,
                           faults, remote_tree>>
    /\ UNCHANGED <<roomsVars, prVars, combatVars, gameVars>>

\* the user closes the progress dialog (QDialog rejects on Escape / close)
DismissProgressDialog ==
    /\ progress_dialog = "shown"
    /\ progress_dialog' = "hidden"
    /\ UNCHANGED <<storeVars, pc, loc, auto_refresh, view, faults, remote_tree,
                   roomsVars, prVars, combatVars, gameVars>>

NoFault ==
    <<progress_dialog, auto_refresh, view, remote_tree, roomsVars, prVars,
      combatVars, gameVars>>
Others == <<NoFault, faults>>

\* RepoWorldRepository.get_by_full_name
B_Init(t) ==
    /\ pc[t] = "init"
    /\ LET found == {w \in worlds : w.full_name = FullName}
           started == [NoLocals EXCEPT !.percents = <<5>>, !.ran = <<"init">>]
       IN  loc' = [loc EXCEPT ![t] =
                IF found = {} THEN started
                ELSE LET w == CHOOSE w \in found : TRUE
                     IN  [started EXCEPT !.existing = TRUE,
                            !.world = [id |-> w.id,
                                       main_enemy_id |-> w.main_enemy_id]]]
    /\ pc' = [pc EXCEPT ![t] = "fetch_home"]
    /\ UNCHANGED <<storeVars, Others>>

\* scraper.fetch_repo_home and its "if not repo_html: return None"
B_FetchHome(t) ==
    /\ pc[t] = "fetch_home"
    /\ \E ok \in BOOLEAN :
         /\ pc' = [pc EXCEPT ![t] = AfterFetch(ok, "parse_meta")]
         /\ loc' = [loc EXCEPT ![t].failed = IF ok THEN "none" ELSE "home",
                               ![t].result = IF pc'[t] = "returned" THEN "None"
                                             ELSE "none",
                               ![t].ran = IF ok THEN Append(@, "fetch_home")
                                          ELSE @,
                               ![t].percents = Append(@, 10)]
    /\ UNCHANGED <<storeVars, Others>>

\* parse_repo_metadata and its "if not repo_meta: return None"
B_ParseMeta(t) ==
    /\ pc[t] = "parse_meta"
    /\ \E ok \in BOOLEAN :
         /\ pc' = [pc EXCEPT ![t] = AfterFetch(ok, "fetch_rest")]
         /\ loc' = [loc EXCEPT ![t].failed =
                                   IF ok THEN loc[t].failed ELSE "meta",
                               ![t].result = IF pc'[t] = "returned" THEN "None"
                                             ELSE "none",
                               ![t].ran = IF ok THEN Append(@, "parse_meta")
                                          ELSE @,
                               ![t].percents = Append(@, 20)]
    /\ UNCHANGED <<storeVars, Others>>

\* README, tree and commits are fetched and analysed; a fetch that returns
\* None is replaced by empty data ("if tree_html else []")
B_FetchRest(t) ==
    /\ pc[t] = "fetch_rest"
    /\ \E lvl \in MainLevels,
          missing \in SUBSET {"readme", "tree", "commits"} :
         /\ Cardinality(missing) <= faults
         /\ faults' = faults - Cardinality(missing)
         /\ loc' = [loc EXCEPT ![t].tree = IF "tree" \in missing THEN <<>>
                                        ELSE remote_tree,
                            ![t].main_level = lvl,
                            ![t].soft = (missing # {}),
                            ![t].ran = Append(@, "fetch_rest"),
                            ![t].percents = @ \o <<30, 40, 50, 55, 60>>]
    /\ pc' = [pc EXCEPT ![t] = "world"]
    /\ UNCHANGED <<storeVars, NoFault>>

\* "Create or update RepoWorld"; full_name is UNIQUE, so a second INSERT of
\* the same full_name raises and the build returns None
B_World(t) ==
    /\ pc[t] = "world"
    /\ IF loc[t].existing
       THEN /\ worlds' = {IF w.id = loc[t].world.id
                          THEN [w EXCEPT !.main_enemy_id = loc[t].world.main_enemy_id]
                          ELSE w : w \in worlds}
            /\ pc' = [pc EXCEPT ![t] = "enemy"]
            /\ loc' = [loc EXCEPT ![t].ran = Append(@, "world"),
                                  ![t].percents = Append(@, 65)]
            /\ UNCHANGED next_id
       ELSE IF \E w \in worlds : w.full_name = FullName
       THEN /\ pc' = [pc EXCEPT ![t] = "returned"]
            /\ loc' = [loc EXCEPT ![t].failed = "world", ![t].result = "None",
                                  ![t].percents = Append(@, 65)]
            /\ UNCHANGED <<worlds, next_id>>
       ELSE /\ worlds' = worlds \cup {[id |-> next_id.world,
                                       full_name |-> FullName,
                                       main_enemy_id |-> 0]}
            /\ next_id' = [next_id EXCEPT !.world = @ + 1]
            /\ loc' = [loc EXCEPT ![t].world = [id |-> next_id.world,
                                                main_enemy_id |-> 0],
                                  ![t].ran = Append(@, "world"),
                                  ![t].percents = Append(@, 65)]
            /\ pc' = [pc EXCEPT ![t] = "enemy"]
    /\ UNCHANGED <<enemies, rooms, quests, Others>>

\* EnemyRepository.create(main_enemy); world.main_enemy_id = main_enemy.id
B_Enemy(t) ==
    /\ pc[t] = "enemy"
    /\ enemies' = enemies \cup {[id |-> next_id.enemy,
                                 world_id |-> loc[t].world.id,
                                 level |-> loc[t].main_level,
                                 is_boss |-> FALSE,
                                 pr_number |-> 0,
                                 hp |-> 50 + (loc[t].main_level * 10)
                                        + (2 * Cardinality(
                                             {i \in 1..Len(loc[t].tree) :
                                                ~loc[t].tree[i].is_dir})),
                                 attack |-> 5 + (loc[t].main_level * 2),
                                 defense |-> 5 + loc[t].main_level]}
    /\ next_id' = [next_id EXCEPT !.enemy = @ + 1]
    /\ loc' = [loc EXCEPT ![t].world.main_enemy_id = next_id.enemy,
                          ![t].ran = Append(@, "enemy"),
                          ![t].percents = Append(@, 70)]
    /\ pc' = [pc EXCEPT ![t] = "world_enemy"]
    /\ UNCHANGED <<worlds, rooms, quests, Others>>

\* RepoWorldRepository.update(world) after the main enemy was created, and
\* the progress report that opens the room stage
B_WorldEnemy(t) ==
    /\ pc[t] = "world_enemy"
    /\ worlds' = {IF w.id = loc[t].world.id
                  THEN [w EXCEPT !.main_enemy_id = loc[t].world.main_enemy_id]
                  ELSE w : w \in worlds}
    /\ pc' = [pc EXCEPT ![t] = IF loc[t].existing THEN "read_rooms"
                               ELSE "generate"]
    /\ loc' = [loc EXCEPT ![t].ran = Append(@, "world_enemy"),
                          ![t].percents = Append(@, 75)]
    /\ UNCHANGED <<enemies, rooms, quests, next_id, Others>>

\* DungeonRoomRepository.get_by_world_id when refreshing
B_ReadRooms(t) ==
    /\ pc[t] = "read_rooms"
    /\ loc' = [loc EXCEPT ![t].old_rooms =
                 SetToSeq({r.id : r \in {x \in rooms : x.world_id = loc[t].world.id}}),
                          ![t].ran = Append(@, "read_rooms")]
    /\ pc' = [pc EXCEPT ![t] = "delete"]
    /\ UNCHANGED <<storeVars, Others>>

\* one DELETE FROM dungeon_rooms WHERE id = ?, or the commit after the last
B_DeleteRoom(t) ==
    /\ pc[t] = "delete"
    /\ IF loc[t].old_rooms # <<>>
       THEN /\ rooms' = {r \in rooms : r.id # Head(loc[t].old_rooms)}
            /\ loc' = [loc EXCEPT ![t].old_rooms = Tail(@)]
            /\ pc' = pc
       ELSE /\ pc' = [pc EXCEPT ![t] = "generate"]
            /\ loc' = [loc EXCEPT ![t].ran = Append(@, "delete")]
            /\ UNCHANGED rooms
    /\ UNCHANGED <<worlds, enemies, quests, next_id, Others>>

\* generate_dungeon_rooms and the deduplication by file_path
B_Generate(t) ==
    /\ pc[t] = "generate"
    /\ LET unique_rooms ==
               DedupByPath(generate_dungeon_rooms(loc[t].tree, loc[t].world.id))
       IN  loc' = [loc EXCEPT ![t].new_rooms = unique_rooms,
                              ![t].n_rooms = Len(unique_rooms),
                              ![t].ran = Append(@, "generate")]
    /\ pc' = [pc EXCEPT ![t] = "create"]
    /\ UNCHANGED <<storeVars, Others>>

\* the division by the number of rooms is missing
RoomPercent_NoDivision(i, n) == 75 + (i * 5)

\* the percent reported after room i (0-based) of n was created
RoomPercent(i, n) == 75 + ((i * 5) \div n)

\* the "if i % 10 == 0 and progress_callback and len(unique_rooms) > 0"
RoomReport(i, n) == IF i % 10 = 0 /\ n > 0 THEN <<RoomPercent(i, n)>> ELSE <<>>

\* one DungeonRoomRepository.create with its progress report, or the end of
\* the loop
B_CreateRoom(t) ==
    /\ pc[t] = "create"
    /\ IF loc[t].new_rooms # <<>>
       THEN /\ rooms' = rooms \cup
                  {[id |-> next_id.room,
                    world_id |-> Head(loc[t].new_rooms).world_id,
                    zone_name |-> Head(loc[t].new_rooms).zone_name,
                    file_path |-> Head(loc[t].new_rooms).file_path,
                    danger_level |-> Head(loc[t].new_rooms).danger_level,
                    loot_quality |-> Head(loc[t].new_rooms).loot_quality,
                    visited |-> Head(loc[t].new_rooms).visited]}
            /\ next_id' = [next_id EXCEPT !.room = @ + 1]
            /\ loc' = [loc EXCEPT ![t].new_rooms = Tail(@),
                   ![t].percents = @ \o
                       RoomReport(loc[t].n_rooms - Len(loc[t].new_rooms),
                                  loc[t].n_rooms)]
            /\ pc' = pc
       ELSE /\ pc' = [pc EXCEPT ![t] = "issues"]
            /\ loc' = [loc EXCEPT ![t].ran = Append(@, "create")]
            /\ UNCHANGED <<rooms, next_id>>
    /\ UNCHANGED <<worlds, enemies, quests, Others>>

\* the issues page is fetched; when it came, the quests of the first 20
\* issues are created
B_Issues(t) ==
    /\ pc[t] = "issues"
    /\ \E issues_html \in BOOLEAN, issues \in IssueLists :
         LET first == IF issues_html THEN Take(issues, 20) ELSE <<>>
         IN  /\ ~issues_html => faults > 0
             /\ faults' = IF issues_html THEN faults ELSE faults - 1
             /\ ~issues_html => issues = <<>>
             /\ loc' = [loc EXCEPT ![t].soft = @ \/ ~issues_html,
                    ![t].ran = Append(@, "issues"),
                    ![t].percents = @ \o (IF issues_html THEN <<85, 88>>
                                          ELSE <<85>>)]
             /\ quests' = quests \cup
                   {[id |-> next_id.quest + i - 1,
                     world_id |-> loc[t].world.id,
                     source_type |-> "issue",
                     source_number |-> first[i].issue_number,
                     difficulty |-> compute_issue_difficulty(first[i]),
                     status |-> "new"] : i \in 1..Len(first)}
             /\ next_id' = [next_id EXCEPT !.quest = @ + Len(first)]
    /\ pc' = [pc EXCEPT ![t] = "pulls"]
    /\ UNCHANGED <<worlds, enemies, rooms, NoFault>>

\* the pulls page is fetched; when it came, the boss enemies and quests of
\* the first 10 pull requests are created; the world is returned
B_Pulls(t) ==
    /\ pc[t] = "pulls"
    /\ \E pulls_html \in BOOLEAN, pulls \in PullLists :
         LET first == IF pulls_html THEN Take(pulls, 10) ELSE <<>>
             lvl(i) == compute_pr_boss_level(first[i], loc[t].main_level)
         IN  /\ ~pulls_html => faults > 0
             /\ faults' = IF pulls_html THEN faults ELSE faults - 1
             /\ ~pulls_html => pulls = <<>>
             /\ loc' = [loc EXCEPT ![t].result = "world",
                    ![t].soft = @ \/ ~pulls_html,
                    ![t].ran = Append(@, "pulls"),
                    ![t].percents = @ \o (IF pulls_html THEN <<92, 95, 100>>
                                          ELSE <<92, 100>>)]
             /\ enemies' = enemies \cup
                   {[id |-> next_id.enemy + i - 1,
                     world_id |-> loc[t].world.id,
                     level |-> lvl(i),
                     is_boss |-> TRUE,
                     pr_number |-> first[i].pr_number,
                     hp |-> 100 + (lvl(i) * 10),
                     attack |-> 10 + (lvl(i) * 2),
                     defense |-> 5 + lvl(i)] : i \in 1..Len(first)}
             /\ quests' = quests \cup
                   {[id |-> next_id.quest + i - 1,
                     world_id |-> loc[t].world.id,
                     source_type |-> "pr",
                     source_number |-> first[i].pr_number,
                     difficulty |-> lvl(i),
                     status |-> "new"] : i \in 1..Len(first)}
             /\ next_id' = [next_id EXCEPT !.enemy = @ + Len(first),
                                           !.quest = @ + Len(first)]
    /\ pc' = [pc EXCEPT ![t] = "returned"]
    /\ UNCHANGED <<worlds, rooms, NoFault>>

\* the stages inside the try block of build_repo_world
Stages ==
    {"init", "fetch_home", "parse_meta", "fetch_rest", "world", "enemy",
     "world_enemy", "read_rooms", "delete", "generate", "create", "issues",
     "pulls"}

\* what a stage has reported when one of its operations raises
RaiseReports(stage) ==
    CASE stage = "init" -> {<<5>>}
      [] stage = "fetch_home" -> {<<10>>}
      [] stage = "parse_meta" -> {<<20>>}
      [] stage = "fetch_rest" ->
             {SubSeq(<<30, 40, 50, 55, 60>>, 1, k) : k \in 1..5}
      [] stage = "world" -> {<<65>>}
      [] stage = "enemy" -> {<<70>>}
      [] stage = "issues" -> {<<85>>, <<85, 88>>}
      [] stage = "pulls" -> {<<92>>, <<92, 95>>}
      [] OTHER -> {<<>>}

\* the exception is logged inside the stage and the build goes on
AfterRaise_Continue(stage) == stage

\* where "except Exception" takes a build whose stage raised
AfterRaise(stage) == "returned"

\* an operation of the stage a build is at raises (sqlite3.Error, a parser
\* error, ...): "except Exception" logs it and the build returns None
B_Raise(t) ==
    /\ faults > 0
    /\ faults' = faults - 1
    /\ pc[t] \in Stages
    /\ \E reported \in RaiseReports(pc[t]) :
         loc' = [loc EXCEPT ![t].failed = "exception", ![t].result = "None",
                            ![t].percents = @ \o reported]
    /\ pc' = [pc EXCEPT ![t] = AfterRaise(pc[t])]
    /\ UNCHANGED <<storeVars, NoFault>>

\* MainWindow.on_scraping_finished, the slot of ScrapingThread.finished
OnScrapingFinished(t) ==
    /\ pc[t] = "returned"
    /\ pc' = [pc EXCEPT ![t] = "done"]
    /\ loc' = [loc EXCEPT ![t] = [NoLocals EXCEPT !.result = loc[t].result,
                                                  !.failed = loc[t].failed]]
    /\ progress_dialog' = "none"
    /\ UNCHANGED <<storeVars, auto_refresh, view, faults, remote_tree,
                   roomsVars, prVars, combatVars, gameVars>>

\* one step of build_repo_world in thread t
BuildStep(t) ==
    \/ B_Init(t)
    \/ B_FetchHome(t)
    \/ B_ParseMeta(t)
    \/ B_FetchRest(t)
    \/ B_World(t)
    \/ B_Enemy(t)
    \/ B_WorldEnemy(t)
    \/ B_ReadRooms(t)
    \/ B_DeleteRoom(t)
    \/ B_Generate(t)
    \/ B_CreateRoom(t)
    \/ B_Issues(t)
    \/ B_Pulls(t)
    \/ B_Raise(t)

Build == \E t \in Threads : BuildStep(t)
Finished == \E t \in Threads : OnScrapingFinished(t)

\* the program while the progress dialog is left alone
NextBuild == OnEnterDungeon \/ OnRefreshWorld \/ OnRepoSelected \/ Build \/ Finished

SpecBuild == InitBuild /\ [][NextBuild]_vars

\* the program with a user who may close the progress dialog
NextDismiss == NextBuild \/ DismissProgressDialog

\* ... on a repository of at most three entries; a fault is injected only
\* on the empty repository, without auto_refresh
InitDismiss ==
    /\ InitBuild
    /\ Len(remote_tree) <= 3
    /\ faults > 0 => (remote_tree = <<>> /\ ~auto_refresh)

SpecDismiss == InitDismiss /\ [][NextDismiss]_vars

\* a player of that level who gained every level through award_xp
PlayerAt(level, xp, hp) ==
    [id |-> 1, level |-> level, xp |-> xp, hp |-> hp,
     attack |-> 10 + (2 * (level - 1)), defense |-> 5 + (level - 1),
     speed |-> 8 + (level - 1), luck |-> 5 + (level - 1)]

\* a player of level 1, 9 or 10 holding n rings, the items 1..n: the first
\* ring is worn, the second is held twice
InitLogic ==
    /\ \E level \in {1, 9, 10}, n \in {0, 9, 10, 19, 20} :
       \E xp \in {0, 5, (level * 100) - 10}, hp \in {1, (level * 10) + 90} :
         /\ n <= calculate_inventory_space(level)
         /\ player = PlayerAt(level, xp, hp)
         /\ players = {player}
         /\ items = {[id |-> i, equipment_type |-> "ring",
                       stat_bonuses |-> NoBonus] : i \in 1..n}
         /\ inventory = {[player_id |-> 1, item_id |-> i,
                           quantity |-> IF i = 2 THEN 2 ELSE 1,
                           equipped |-> (i = 1)] : i \in 1..n}
         /\ next_id = [world |-> 1, enemy |-> 1, room |-> 1, quest |-> 1,
                       item |-> n + 1]
    /\ ret = NoReturn
    /\ calls = 0
    /\ worlds = {}
    /\ enemies = {}
    /\ rooms = {}
    /\ quests = {}
    /\ pc = [t \in Threads |-> "idle"]
    /\ loc = [t \in Threads |-> NoLocals]
    /\ progress_dialog = "none"
    /\ auto_refresh = FALSE
    /\ view = 0
    /\ faults = 0
    /\ remote_tree = <<>>
    /\ RoomsIdle
    /\ PRIdle
    /\ CombatIdle

\* award_xp called with a grant (the recycler, or a caller's exact
\* level * 100)
AwardXp(xp) ==
    /\ calls < MaxCalls
    /\ calls' = calls + 1
    /\ LET r == award_xp(player, xp, players)
       IN  /\ player' = r.player
           /\ players' = r.players
           /\ ret' = [of |-> "award_xp", before |-> player, grant |-> xp,
                      leveled_up |-> r.leveled_up]
    /\ UNCHANGED <<items, inventory, next_id>>
    /\ UNCHANGED <<worlds, enemies, rooms, quests, pc, loc, progress_dialog,
                   auto_refresh, view, faults, remote_tree, roomsVars, prVars,
                   combatVars>>

HandleVictory(e, loot_quality, roll) ==
    /\ calls < MaxCalls
    /\ calls' = calls + 1
    /\ LET r == handle_victory(player, e, loot_quality, roll, players, items,
                               inventory, next_id.item)
       IN  /\ player' = r.player
           /\ players' = r.players
           /\ items' = r.items
           /\ inventory' = r.inventory
           /\ next_id' = [next_id EXCEPT !.item = r.next_item]
           /\ ret' = [of |-> "handle_victory", before |-> player,
                      items_before |-> items, inventory_before |-> inventory,
                      enemy |-> e, generated |-> roll.drop, loot |-> r.loot,
                      xp |-> r.xp, leveled_up |-> r.leveled_up]
    /\ UNCHANGED <<worlds, enemies, rooms, quests, pc, loc, progress_dialog,
                   auto_refresh, view, faults, remote_tree, roomsVars, prVars,
                   combatVars>>

HandleDefeat ==
    /\ calls < MaxCalls
    /\ calls' = calls + 1
    /\ LET r == handle_defeat(player, players)
       IN  /\ player' = r.player
           /\ players' = r.players
           /\ ret' = [of |-> "handle_defeat", before |-> player,
                      xp_lost |-> r.xp_lost]
    /\ UNCHANGED <<items, inventory, next_id>>
    /\ UNCHANGED <<worlds, enemies, rooms, quests, pc, loc, progress_dialog,
                   auto_refresh, view, faults, remote_tree, roomsVars, prVars,
                   combatVars>>

\* RecyclerDialog._recycle_items: the listed (item_id, quantity) pairs are
\* removed from the inventory and their xp is awarded; xp_each stands for
\* rarity_xp of the items' rarity
RecycleItems(list, xp_each) ==
    /\ calls < MaxCalls
    /\ calls' = calls + 1
    /\ player.id # 0
    /\ LET RECURSIVE Loop(_, _)
           Loop(inv, i) ==
               IF i > Len(list) THEN [inventory |-> inv, total_xp |-> 0]
               ELSE LET item_id == list[i][1]
                        quantity == list[i][2]
                    IN  IF \/ ~\E it \in items : it.id = item_id
                           \/ quantity <= 0
                           \/ ~\E r \in inv : IsRow(r, player.id, item_id)
                        THEN Loop(inv, i + 1)
                        ELSE LET rest == Loop(remove_from_inventory(inv,
                                                  player.id, item_id, quantity),
                                              i + 1)
                             IN  [rest EXCEPT !.total_xp = @ + (xp_each * quantity)]
       IN  \E r \in {Loop(inventory, 1)} :
             /\ inventory' = r.inventory
             /\ IF r.total_xp > 0
                THEN \E a \in {award_xp(player, r.total_xp, players)} :
                       /\ player' = a.player
                       /\ players' = PlayerUpdate(a.players, a.player)
                ELSE UNCHANGED <<player, players>>
             /\ ret' = [of |-> "recycle_items", before |-> player,
                        inventory_before |-> inventory, list |-> list,
                        total_xp |-> r.total_xp]
    /\ UNCHANGED <<items, next_id>>
    /\ UNCHANGED <<worlds, enemies, rooms, quests, pc, loc, progress_dialog,
                   auto_refresh, view, faults, remote_tree, roomsVars, prVars,
                   combatVars>>

\* RecyclerDialog.sell_item: a row the table shows (not equipped), with a
\* quantity of the spin box, 1 up to the quantity held
SellItem(item_id, quantity, xp_each) ==
    /\ \E r \in inventory :
          /\ IsRow(r, player.id, item_id)
          /\ ~r.equipped
          /\ quantity \in 1..r.quantity
    /\ RecycleItems(<<<<item_id, quantity>>>>, xp_each)

\* RecyclerDialog.recycle_all: every row that is not equipped, whole
RecycleAll(xp_each) ==
    LET rows == {r \in inventory : r.player_id = player.id /\ ~r.equipped}
        order == SetToSeq({r.item_id : r \in rows})
    IN  /\ rows # {}
        /\ RecycleItems([i \in 1..Len(order) |->
                            <<order[i],
                              (CHOOSE r \in rows : r.item_id = order[i]).quantity>>],
                        xp_each)

NextLogic ==
    \/ \E xp \in {0, 300, player.level * 100} : AwardXp(xp)
    \/ \E e \in {[level |-> 1, is_boss |-> FALSE],
                 [level |-> 20, is_boss |-> TRUE]},
          loot_quality \in {1, 6}, roll \in LootRolls :
         HandleVictory(e, loot_quality, roll)
    \/ HandleDefeat

SpecLogic == InitLogic /\ [][NextLogic]_vars

\* what a player does between and after battles: the inventory screen, the
\* recycler, and battles won (against a boss of level 20) or lost
NextCareer ==
    \/ \E item_id \in {1, 2} : UnequipItem(player.id, item_id)
    \/ \E item_id \in {1, 2} : EquipItem(player.id, item_id)
    \/ \E item_id \in {2, 3}, quantity \in {1, 2}, xp_each \in {5, 100} :
         SellItem(item_id, quantity, xp_each)
    \/ \E xp_each \in {5, 100} : RecycleAll(xp_each)
    \/ \E roll \in LootRolls :
         HandleVictory([level |-> 20, is_boss |-> TRUE], 1, roll)
    \/ HandleDefeat

SpecCareer == InitLogic /\ [][NextCareer]_vars

(***************************************************************************)
(* Quests and rooms: MainWindow.on_start_quest and on_room_selected        *)
(***************************************************************************)
\* most CombatDialogs opened in one run
MaxBattles == 2
\* most turns taken in one CombatDialog
MaxTurns == 2

\* generate_room_enemy
generate_room_enemy(danger_level) ==
    [level |-> Max(1, danger_level), hp |-> 30 + (danger_level * 15),
     attack |-> 4 + danger_level, defense |-> 1 + (danger_level \div 2),
     is_boss |-> FALSE]

\* CombatDialog.__init__: the sum of one stat over the equipped inventory
\* rows of the player
equipped_bonuses(inv, its, player_id, stat) ==
    LET RECURSIVE Sum(_)
        Sum(rows) ==
          IF rows = {} THEN 0
          ELSE LET r == CHOOSE x \in rows : TRUE
               IN  (CHOOSE i \in its : i.id = r.item_id).stat_bonuses[stat]
                   + Sum(rows \ {r})
    IN  Sum({r \in inv : /\ r.player_id = player_id
                         /\ r.equipped
                         /\ \E i \in its : i.id = r.item_id})

\* CombatDialog(player, enemy, loot_quality) followed by dialog.exec()
OpenDialog(kind, id, loot_quality, e, p) ==
    /\ dialog' = [kind |-> kind, id |-> id, loot_quality |-> loot_quality,
                  bonus_hp |-> equipped_bonuses(inventory, items, p.id, "hp"),
                  turn_count |-> 0]
    /\ combat_player' =
         [hp |-> p.hp + equipped_bonuses(inventory, items, p.id, "hp"),
          attack |-> p.attack + equipped_bonuses(inventory, items, p.id, "attack"),
          defense |-> p.defense
                      + equipped_bonuses(inventory, items, p.id, "defense")]
    /\ enemy' = [hp |-> e.hp, attack |-> e.attack, defense |-> e.defense,
                 level |-> e.level, is_boss |-> e.is_boss]
    /\ buttons_enabled' = TRUE
    /\ battle' = "ongoing"
    /\ last' = NoTurn
    /\ battles' = battles + 1

\* MainWindow.on_start_quest: the first boss of the world whose name
\* ("PR #<number>: <title>", the title left out) contains the quest's
\* number for a PR quest, else the world's main enemy
OnStartQuest(quest_id) ==
    /\ battle # "ongoing"
    /\ battles < MaxBattles
    /\ player.id # 0
    /\ \E quest \in quests :
         /\ quest.id = quest_id
         /\ LET bosses == {e \in enemies :
                             /\ e.world_id = quest.world_id
                             /\ e.is_boss
                             /\ Contains(<<"P", "R", " ", "#">>
                                           \o Digits(e.pr_number)
                                           \o <<":", " ">>,
                                         Digits(quest.source_number))}
                found == IF quest.source_type = "pr" /\ bosses # {}
                         THEN {e \in bosses : \A o \in bosses : e.id <= o.id}
                         ELSE {e \in enemies :
                                 \E w \in worlds : /\ w.id = quest.world_id
                                                   /\ w.main_enemy_id # 0
                                                   /\ e.id = w.main_enemy_id}
            IN  /\ found # {}
                /\ OpenDialog("quest", quest_id, 1, CHOOSE e \in found : TRUE,
                              player)
    /\ UNCHANGED <<player, players, items, inventory, ret, calls, buildVars,
                   roomsVars, prVars>>

\* MainWindow.on_room_selected
OnRoomSelected(room_id) ==
    /\ battle # "ongoing"
    /\ battles < MaxBattles
    /\ player.id # 0
    /\ \E room \in rooms :
         /\ room.id = room_id
         /\ ~room.visited
         /\ LET r == restore_player_hp(player, players)
            IN  /\ player' = r.player
                /\ players' = r.players
                /\ OpenDialog("room", room_id, room.loot_quality,
                              generate_room_enemy(room.danger_level), r.player)
    /\ UNCHANGED <<items, inventory, ret, calls, buildVars, roomsVars, prVars>>

\* the store after one build of a repository of one file, one issue and
\* one pull request without comments; a player of level 54, 30 xp short of
\* the next level, wearing an armor of +2 hp, hurt or at full hp
InitPlay ==
    /\ worlds = {[id |-> 1, full_name |-> FullName, main_enemy_id |-> 1]}
    /\ enemies = {[id |-> 1, world_id |-> 1, level |-> 1, is_boss |-> FALSE,
                   pr_number |-> 0, hp |-> 62, attack |-> 7, defense |-> 6],
                  [id |-> 2, world_id |-> 1, level |-> 1, is_boss |-> TRUE,
                   pr_number |-> 2, hp |-> 110, attack |-> 12, defense |-> 6]}
    /\ rooms = {[id |-> 1, world_id |-> 1, zone_name |-> S_root,
                 file_path |-> <<"a">>, danger_level |-> 2, loot_quality |-> 1,
                 visited |-> FALSE]}
    /\ quests = {[id |-> 1, world_id |-> 1, source_type |-> "issue",
                  source_number |-> 1, difficulty |-> 5, status |-> "new"],
                 [id |-> 2, world_id |-> 1, source_type |-> "pr",
                  source_number |-> 2, difficulty |-> 1, status |-> "new"]}
    /\ next_id = [world |-> 2, enemy |-> 3, room |-> 2, quest |-> 3, item |-> 2]
    /\ player \in {PlayerAt(54, 5370, hp) : hp \in {2, 630}}
    /\ players = {player}
    /\ items = {[id |-> 1, equipment_type |-> "armor",
                 stat_bonuses |-> [NoBonus EXCEPT !.hp = 2]]}
    /\ inventory = {[player_id |-> 1, item_id |-> 1, quantity |-> 1,
                     equipped |-> TRUE]}
    /\ ret = NoReturn
    /\ calls = 0
    /\ pc = [t \in Threads |-> "idle"]
    /\ loc = [t \in Threads |-> NoLocals]
    /\ progress_dialog = "none"
    /\ auto_refresh = FALSE
    /\ view = 0
    /\ faults = 0
    /\ remote_tree = <<>>
    /\ RoomsIdle
    /\ PRIdle
    /\ CombatIdle

NextPlay ==
    \/ \E quest_id \in {q.id : q \in quests} : OnStartQuest(quest_id)
    \/ \E room_id \in {r.id : r \in rooms} : OnRoomSelected(room_id)
    \/ dialog.turn_count < MaxTurns /\ (Attack \/ Defend \/ Flee)

SpecPlay == InitPlay /\ [][NextPlay]_vars

(***************************************************************************)
(* C1: every room returned by generate_dungeon_rooms has danger_level in   *)
(* 1..10, whatever the zone name, file type and number of files per zone.  *)
(***************************************************************************)
C1_DangerInRange ==
    gen_done => \A i \in 1..Len(gen_rooms) : gen_rooms[i].danger_level \in 1..10

(***************************************************************************)
(* C4: compute_pr_boss_level for comment_count=9, additions=600,           *)
(* deletions=600, base_repo_level=20.  The claim states the result 18.     *)
(***************************************************************************)
ScenarioD ==
    /\ pr_done
    /\ pr = [comment_count |-> 9, additions |-> Some(600), deletions |-> Some(600)]
    /\ base_repo_level = 20

\* C4 as stated: the result is 18 (10 + 3 + 5)
C4_Returns18 == ScenarioD => pr_level = 18

\* C4 amended: the total diff 1200 is above 1000, so the tier bonus is 10
\* and the result is 10 + 3 + 10 = 23, under the cap min(30, 50) = 30
C4_Returns23 == ScenarioD => pr_level = 23

C4_Witness == ScenarioD /\ pr_level < Min(base_repo_level + 10, 50)

(***************************************************************************)
(* Facts about the last turn                                               *)
(***************************************************************************)
\* the player struck the enemy in the last turn
PlayerStruck == last.action = "attack"

\* the enemy struck the player in the last turn
EnemyStruck ==
    \/ last.action = "attack" /\ last.result # "victory"
    \/ last.action = "defend"
    \/ last.action = "flee" /\ ~last.flee_ok

\* the defense the enemy's strike of the last turn was computed against
StruckDefense ==
    IF last.action = "defend" THEN combat_player.defense * 2
    ELSE combat_player.defense

DamageToEnemy == last.enemy_before - enemy.hp
DamageToPlayer == last.player_before - combat_player.hp

(***************************************************************************)
(* C5: calculate_damage returns exactly max(1, attack - defense//2 + v)    *)
(* for every attack, defense and variance draw v in -2..2.                 *)
(***************************************************************************)
\* C5 as stated: a single clamp after the variance
C5_SingleClamp ==
    /\ PlayerStruck =>
         DamageToEnemy =
           Max(1, combat_player.attack - (enemy.defense \div 2) + last.v_player)
    /\ EnemyStruck =>
         DamageToPlayer =
           Max(1, enemy.attack - (StruckDefense \div 2) + last.v_enemy)

\* C5 amended: the base damage attack - defense//2 is clamped to 1 before
\* the variance is added, and the sum is clamped to 1 again
C5_DoubleClamp ==
    /\ PlayerStruck =>
         DamageToEnemy =
           Max(1, Max(1, combat_player.attack - (enemy.defense \div 2))
                    + last.v_player)
    /\ EnemyStruck =>
         DamageToPlayer =
           Max(1, Max(1, enemy.attack - (StruckDefense \div 2)) + last.v_enemy)

\* a hit with a negative attack - defense//2 and a positive variance
C5_Witness ==
    /\ PlayerStruck
    /\ combat_player.attack - (enemy.defense \div 2) < 0
    /\ last.v_player = 2
    /\ DamageToEnemy = 3

(***************************************************************************)
(* C6: calculate_damage never returns less than 1, so every strike         *)
(* resolved in combat_turn lowers the target's hp by at least 1.           *)
(***************************************************************************)
C6_DamageFloor ==
    /\ PlayerStruck => enemy.hp <= last.enemy_before - 1
    /\ EnemyStruck => combat_player.hp <= last.player_before - 1

\* a strike against a defense far above the attack, with the lowest variance
C6_Witness ==
    /\ EnemyStruck
    /\ enemy.attack = 1
    /\ combat_player.defense = 12
    /\ last.v_enemy = -2
    /\ DamageToPlayer = 1

(***************************************************************************)
(* C7: combat_turn returns continues = false exactly when it returns the   *)
(* outcome victory, defeat or fled (no outcome while the battle continues),*)
(* and once an outcome was returned no further turn changes the battle's   *)
(* player or enemy.                                                        *)
(***************************************************************************)
Outcomes == {"victory", "defeat", "fled"}

C7_OutcomeIffEnded ==
    last.action # "none" =>
        /\ (~last.continues) <=> (last.result \in Outcomes)
        /\ last.continues => last.result = "none"
        /\ (battle = "ongoing") <=> last.continues

C7_NoTurnAfterOutcome ==
    battle \in Outcomes => UNCHANGED <<combat_player, enemy, battle>>

C8_AttackTurn ==
    last.action = "attack" =>
        LET e_hp == last.enemy_before
                      - calculate_damage(combat_player.attack, enemy.defense,
                                         last.v_player)
        IN  /\ enemy.hp = e_hp
            /\ IF e_hp <= 0
               THEN /\ last.result = "victory"
                    /\ combat_player.hp = last.player_before
               ELSE /\ combat_player.hp = last.player_before
                         - calculate_damage(enemy.attack, combat_player.defense,
                                            last.v_enemy)
                    /\ (last.result = "defeat") <=> (combat_player.hp <= 0)
                    /\ last.result \in {"defeat", "none"}

\* a killing blow by a player the enemy's strike would have hurt
C8_Witness ==
    /\ last.action = "attack"
    /\ last.result = "victory"
    /\ enemy.hp <= 0
    /\ combat_player.hp = last.player_before

(***************************************************************************)
(* C9: defend and flee turns never change the enemy's hp; a successful     *)
(* flee changes no hp and ends the battle as fled; a defend turn damages   *)
(* the player by damage(enemy.attack, 2 * player.defense), a failed flee   *)
(* by damage(enemy.attack, player.defense), each ending in defeat exactly  *)
(* when the player's hp is then 0 or below.                                *)
(***************************************************************************)
C9_DefendFlee ==
    /\ last.action \in {"defend", "flee"} => enemy.hp = last.enemy_before
    /\ (last.action = "flee" /\ last.flee_ok) =>
          /\ combat_player.hp = last.player_before
          /\ last.result = "fled"
          /\ battle = "fled"
    /\ last.action = "defend" =>
          /\ DamageToPlayer = calculate_damage(enemy.attack,
                                               2 * combat_player.defense,
                                               last.v_enemy)
          /\ (last.result = "defeat") <=> (combat_player.hp <= 0)
    /\ (last.action = "flee" /\ ~last.flee_ok) =>
          /\ DamageToPlayer = calculate_damage(enemy.attack,
                                               combat_player.defense,
                                               last.v_enemy)
          /\ (last.result = "defeat") <=> (combat_player.hp <= 0)

\* a defend turn in which doubling the defense lowered the damage
C9_Witness ==
    /\ last.action = "defend"
    /\ enemy.attack = 4
    /\ combat_player.defense = 2
    /\ last.v_enemy = 0
    /\ DamageToPlayer = 2

(***************************************************************************)
(* Facts about the builds                                                  *)
(***************************************************************************)
\* no build_repo_world call is in progress
Quiescent == \A t \in Threads : pc[t] \in {"idle", "done"}

\* a build is between the lookup of its world's rooms and its last insert
InRoomSteps(t) == pc[t] \in {"read_rooms", "delete", "generate", "create"}

\* no two persisted rooms of one world share their file_path
UniqueRoomPaths ==
    \A r1 \in rooms, r2 \in rooms :
        (r1.world_id = r2.world_id /\ r1.file_path = r2.file_path) => r1.id = r2.id

(***************************************************************************)
(* C2: after any sequence of build_repo_world runs for one repository, run *)
(* one after another, also with trees that list a path more than once, no  *)
(* two persisted rooms of the world share their file_path.                 *)
(***************************************************************************)
C2_UniqueAfterBuilds == Quiescent => UniqueRoomPaths

\* a first build and a rebuild, both from a tree that lists a path twice
C2_Witness ==
    /\ \A t \in Threads : pc[t] = "done" /\ loc[t].result = "world"
    /\ Cardinality(rooms) = 2
    /\ next_id.room = 5

(***************************************************************************)
(* C3: two builds of one repository never run concurrently: a build        *)
(* started while an earlier one is still in its thread does not interleave *)
(* its delete-rooms / create-rooms steps with it, and no duplicated rooms  *)
(* are left behind.                                                        *)
(***************************************************************************)
C3_BuildsSerialized ==
    /\ Cardinality({t \in Threads : InRoomSteps(t)}) <= 1
    /\ Quiescent => UniqueRoomPaths

(***************************************************************************)
(* C10: a build whose home page cannot be fetched, or whose metadata       *)
(* cannot be parsed, returns no world and leaves every table as it was.    *)
(***************************************************************************)
C10_ReturnsNone ==
    \A t \in Threads :
        loc[t].failed \in {"home", "meta"} =>
            pc[t] \in {"returned", "done"} /\ loc[t].result = "None"

\* every step taken while a build is before the end of its parse stage
C10_StoreUntouched ==
    (\E t \in Threads : pc[t] \in {"init", "fetch_home", "parse_meta"}) =>
        UNCHANGED storeVars

C10_FetchFailure == []C10_ReturnsNone /\ [][C10_StoreUntouched]_vars

\* a failed refresh of a world that an earlier build filled
C10_Witness ==
    /\ \E t \in Threads : pc[t] = "done" /\ loc[t].failed = "meta"
    /\ \E t \in Threads : pc[t] = "done" /\ loc[t].result = "world"
    /\ Cardinality(rooms) = 2
    /\ quests # {}

(***************************************************************************)
(* C11: build_repo_world never propagates an error; a failing stage ends   *)
(* the build with None, and a world is returned only when every stage ran. *)
(***************************************************************************)
\* the stages of a complete build, in order
AllStages(existing) ==
    <<"init", "fetch_home", "parse_meta", "fetch_rest", "world", "enemy",
      "world_enemy">>
    \o (IF existing THEN <<"read_rooms", "delete">> ELSE <<>>)
    \o <<"generate", "create", "issues", "pulls">>

IsPrefix(a, b) == Len(a) <= Len(b) /\ a = SubSeq(b, 1, Len(a))

C12_ProgressMonotone ==
    \A t \in Threads :
        LET ps == loc[t].percents
        IN  /\ \A i \in 1..Len(ps) : 5 <= ps[i] /\ ps[i] <= 100
            /\ \A i \in 1..(Len(ps) - 1) : ps[i] <= ps[i + 1]
            /\ ps # <<>> => ps[1] = 5
            /\ pc[t] \in Stages \ {"init"} => ps # <<>>
            /\ \A i \in 1..Len(ps) :
                   ps[i] = 100 =>
                       /\ i = Len(ps)
                       /\ pc[t] = "returned"
                       /\ loc[t].result = "world"
            /\ pc[t] = "returned" /\ loc[t].result = "world" =>
                   ps[Len(ps)] = 100

\* a build of more than ten rooms that returned its world: the second
\* per-room report lies strictly between 75 and 85
C12_Witness ==
    \E t \in Threads :
        /\ pc[t] = "returned"
        /\ loc[t].result = "world"
        /\ loc[t].n_rooms > 10
        /\ \E i \in 1..Len(loc[t].percents) :
               75 < loc[t].percents[i] /\ loc[t].percents[i] < 85

(***************************************************************************)
(* C20: compute_pr_boss_level returns a level in 1..min(base + 10, 50),    *)
(* and every boss and PR quest a build creates carries the level computed  *)
(* from the level of that build's main enemy.                              *)
(***************************************************************************)
\* the bound, for every pull request and base level of the input sets
PRLevelBounded ==
    \A p \in [comment_count : CommentCounts, additions : DiffSizes,
               deletions : DiffSizes], base \in BaseLevels :
        /\ 1 <= compute_pr_boss_level(p, base)
        /\ compute_pr_boss_level(p, base) <= Min(base + 10, 50)

\* the bosses a build that just returned has created: the enemies stored
\* after its main enemy
BossesOf(t) ==
    {e \in enemies : e.is_boss /\ e.id > loc[t].world.main_enemy_id}

\* what pull request 2 with 9 comments and a diff of 600 + 600 lines gives:
\* 1 + 3 + 10 capped to 11 under a main enemy of level 1, and 10 + 3 + 10
\* under one of level 20
ExpectedBossLevel(main_level) == IF main_level = 1 THEN 11 ELSE 23

C20_BossLevelBounded ==
    /\ PRLevelBounded
    /\ \A t \in Threads :
           pc[t] = "returned" /\ loc[t].result = "world" =>
               \A e \in BossesOf(t) :
                   LET main == CHOOSE m \in enemies :
                                   m.id = loc[t].world.main_enemy_id
                   IN  /\ 1 <= e.level
                       /\ e.level <= Min(main.level + 10, 50)
                       /\ e.level = ExpectedBossLevel(main.level)
                       /\ \E q \in quests :
                              /\ q.id >= next_id.quest - 1
                              /\ q.source_type = "pr"
                              /\ q.source_number = e.pr_number
                              /\ q.world_id = e.world_id
                              /\ q.difficulty = e.level

\* a rebuild under a main enemy of another level than the first build's,
\* whose boss is held down by the cap base + 10
C20_Witness ==
    \E t \in Threads :
        /\ pc[t] = "returned"
        /\ loc[t].result = "world"
        /\ loc[t].existing
        /\ \E e \in BossesOf(t), m \in enemies, old \in enemies :
               /\ m.id = loc[t].world.main_enemy_id
               /\ e.level = m.level + 10
               /\ ~old.is_boss /\ old.id < m.id /\ old.level # m.level

(***************************************************************************)
(* C13: after any sequence of add_to_inventory, equip_item, unequip_item   *)
(* and remove_from_inventory calls every player has at most one equipped   *)
(* inventory item per equipment_type, and a call that equips an item of a  *)
(* type leaves no other item of that type equipped for that player.        *)
(***************************************************************************)
\* the equipment type of an inventory row's item ("" when it has none)
TypeOfRow(r) ==
    IF \E i \in items : i.id = r.item_id
    THEN (CHOOSE i \in items : i.id = r.item_id).equipment_type
    ELSE ""

EquippedOfType(inv, player_id, equipment_type) ==
    {r \in inv : /\ r.player_id = player_id
                 /\ r.equipped
                 /\ TypeOfRow(r) = equipment_type}

AtMostOneEquippedPerType ==
    \A player_id \in {r.player_id : r \in inventory},
       equipment_type \in EquipmentTypes :
      Cardinality(EquippedOfType(inventory, player_id, equipment_type)) <= 1

\* a step in which a row becomes equipped ends with that row the only
\* equipped one of its player and type
EquipReplaces ==
    \A r \in inventory' :
      (/\ r.equipped
       /\ TypeOfRow(r) \in EquipmentTypes
       /\ ~\E o \in inventory : IsRow(o, r.player_id, r.item_id) /\ o.equipped)
      => EquippedOfType(inventory', r.player_id, TypeOfRow(r)) = {r}

C13_OneEquippedPerType == [](AtMostOneEquippedPerType) /\ [][EquipReplaces]_vars

\* player 1 wears weapon 2 and the shield after weapon 2 replaced weapon 1,
\* which was equipped at the start and is still in the inventory
C13_Witness ==
    /\ \E r \in inventory : IsRow(r, 1, 1) /\ ~r.equipped /\ r.quantity = 2
    /\ \E r \in inventory : IsRow(r, 1, 2) /\ r.equipped
    /\ \E r \in inventory : IsRow(r, 1, 3) /\ r.equipped

(***************************************************************************)
(* C17: award_xp adds the grant to xp and then, while xp >= level*100,     *)
(* subtracts level*100, raises level by 1 and adds hp+10, attack+2,        *)
(* defense+1, speed+1, luck+1 per level gained; xp 0 plus a grant of       *)
(* exactly level*100 gives one level and xp 0; it returns true exactly     *)
(* when a level was gained.                                                *)
(***************************************************************************)
\* the xp needed to climb from level l through g levels
RECURSIVE XpFor(_, _)
XpFor(l, g) == IF g = 0 THEN 0 ELSE (l * 100) + XpFor(l + 1, g - 1)

C17_AwardXp ==
    ret.of = "award_xp" =>
      LET b == ret.before
          g == player.level - b.level
      IN  /\ g >= 0
          /\ b.xp + ret.grant = player.xp + XpFor(b.level, g)
          /\ player.xp < player.level * 100
          /\ g > 0 => player.xp >= 0
          /\ player.hp = b.hp + (10 * g)
          /\ player.attack = b.attack + (2 * g)
          /\ player.defense = b.defense + g
          /\ player.speed = b.speed + g
          /\ player.luck = b.luck + g
          /\ ret.leveled_up = (g > 0)
          /\ (b.xp = 0 /\ ret.grant = b.level * 100) => (g = 1 /\ player.xp = 0)

\* one grant of 300 takes a new player through two levels; and a grant of
\* exactly level*100 to a player with xp 0 has happened
C17_Witness ==
    /\ ret.of = "award_xp"
    /\ ret.leveled_up
    /\ \/ player.level = ret.before.level + 2
       \/ ret.before.xp = 0 /\ ret.grant = ret.before.level * 100

(***************************************************************************)
(* C18: in handle_victory, when loot was generated and the player's        *)
(* inventory rows number at least 10 + (level//10)*10, the loot is neither *)
(* created nor added, the inventory is unchanged and the call returns no   *)
(* item while reporting the xp gained.                                     *)
(***************************************************************************)
C18_InventoryFull ==
    (/\ ret.of = "handle_victory"
     /\ ret.generated
     /\ Cardinality({r \in ret.inventory_before : r.player_id = player.id})
          >= 10 + ((player.level \div 10) * 10))
    => /\ items = ret.items_before
       /\ inventory = ret.inventory_before
       /\ ret.loot = None
       /\ ret.xp = ret.enemy.level * 10 * (IF ret.enemy.is_boss THEN 3 ELSE 1)
       /\ player.level >= ret.before.level

\* loot dropped on a full inventory of 20 rows at a level of 10 or more
C18_Witness ==
    /\ ret.of = "handle_victory"
    /\ ret.generated
    /\ ret.loot = None
    /\ player.level >= 10
    /\ Cardinality(inventory) = 20

(***************************************************************************)
(* C19: handle_defeat removes min(xp, level*10) xp, sets hp to             *)
(* max(1, (level*10+90)//2) and leaves level, attack, defense, speed and   *)
(* luck unchanged; xp stays non-negative and hp at least 1.                *)
(***************************************************************************)
C19_DefeatPenalty ==
    ret.of = "handle_defeat" =>
      LET b == ret.before
          loss == IF b.xp < b.level * 10 THEN b.xp ELSE b.level * 10
          half == ((b.level * 10) + 90) \div 2
      IN  /\ player.xp = b.xp - loss
          /\ ret.xp_lost = loss
          /\ player.xp >= 0
          /\ player.hp = (IF half < 1 THEN 1 ELSE half)
          /\ player.hp >= 1
          /\ player.level = b.level
          /\ player.attack = b.attack
          /\ player.defense = b.defense
          /\ player.speed = b.speed
          /\ player.luck = b.luck
          /\ players = {player}

\* a defeat that took all of an xp smaller than level*10, from a player
\* whose hp was 1
C19_Witness ==
    /\ ret.of = "handle_defeat"
    /\ ret.before.xp = 5
    /\ ret.before.hp = 1
    /\ player.xp = 0
    /\ player.hp = 50

(***************************************************************************)
(* C14: a quest's status follows the chain new, in_progress, completed and *)
(* only moves forward: no step moves a persisted quest to an earlier       *)
(* status, and a quest becomes completed only from in_progress.            *)
(***************************************************************************)
StatusRank(status) ==
    CASE status = "new" -> 1
      [] status = "in_progress" -> 2
      [] status = "completed" -> 3

QuestStepFollowsChain ==
    \A q \in quests, n \in quests' :
      (q.id = n.id /\ q.status # n.status)
      => StatusRank(n.status) = StatusRank(q.status) + 1

C14_StatusChain == [][QuestStepFollowsChain]_vars

(***************************************************************************)
(* C15: a persisted room's visited flag starts false, becomes true only by *)
(* a combat victory in that room, is left alone by a defeat or a flee,     *)
(* never returns to false, and a visited room starts no combat.            *)
(***************************************************************************)
RoomStepVisited ==
    /\ \A r \in rooms, n \in rooms' :
         r.id = n.id =>
           /\ r.visited => n.visited
           /\ (~r.visited /\ n.visited)
              => /\ battle = "ongoing"
                 /\ battle' = "victory"
                 /\ dialog.kind = "room"
                 /\ dialog.id = r.id
    /\ (battle = "ongoing" /\ battle' \in {"defeat", "fled"}) => rooms' = rooms
    /\ (battle # "ongoing" /\ battle' = "ongoing" /\ dialog'.kind = "room")
       => \E r \in rooms : r.id = dialog'.id /\ ~r.visited
    /\ \A r \in rooms : \E n \in rooms' : n.id = r.id

Attributes == {"level", "hp", "attack", "defense", "speed", "luck"}

\* the attributes of a persisted player that are lower after the step
Lowered ==
    {a \in Attributes :
       \E q \in players, n \in players' : q.id = n.id /\ n[a] < q[a]}

BattleEnds(results) == battle = "ongoing" /\ battle' \in results

NoShrinkButDefeat ==
    /\ BattleEnds({"victory", "fled"}) => Lowered = {}
    /\ Lowered # {} => BattleEnds({"defeat"})

C16_NoShrink == [][NoShrinkButDefeat]_vars

\* as the code has it: hp is carried out of a won battle
ShrinkOnlyHp ==
    /\ Lowered \subseteq {"hp"}
    /\ Lowered # {} => BattleEnds({"victory", "defeat"})
    /\ BattleEnds({"fled"}) => players' = players
    /\ BattleEnds({"victory"})
       => \A q \in players, n \in players' :
            q.id = n.id
            => n.hp = (IF combat_player'.hp - dialog.bonus_hp < 1 THEN 1
                       ELSE combat_player'.hp - dialog.bonus_hp)
                      + (10 * (n.level - q.level))
    /\ BattleEnds({"defeat"})
       => \A n \in players' : n.hp = ((n.level * 10) + 90) \div 2

C16_HpCarried == [][ShrinkOnlyHp]_vars

\* a battle won with the hp of the battle at or below the equipped bonus:
\* the persisted hp went from 2 to 1
C16_Witness ==
    /\ battle = "victory"
    /\ combat_player.hp <= dialog.bonus_hp
    /\ dialog.bonus_hp = 2
    /\ \A q \in players : q.hp = 1

(***************************************************************************)
(* C21: in compute_pr_boss_level the diff-size tier bonus is applied       *)
(* whenever both additions and deletions are known (not None), a known 0   *)
(* included, and is not applied when either of them is unknown.            *)
(***************************************************************************)
C21_BonusWhenKnown ==
    pr_done =>
        pr_level =
            Min(Max(1, base_repo_level \div 2) + (pr.comment_count \div 3)
                    + (IF pr.additions # None /\ pr.deletions # None
                       THEN DiffTierBonus(pr.additions[1] + pr.deletions[1])
                       ELSE 0),
                Min(base_repo_level + 10, 50))

(***************************************************************************)
(* Main enemy generator                                                    *)
(***************************************************************************)
\* The process-global generator of the random module.  Its state is kept as
\* a residue: seeding sets the state from the seed alone, every draw steps
\* the state and reads the value off the new state.  States are 0..15.
random_seed(a) == (a * 11 + 7) % 16

Twist(s) == (5 * s + 1) % 16

random_randint(s, a, b) ==
    [value |-> a + (Twist(s) % (b - a + 1)), rng |-> Twist(s)]

\* random.random() < 0.7, the draw read in sixteenths
random_below_70(s) == [value |-> Twist(s) * 10 < 7 * 16, rng |-> Twist(s)]

random_choice(s, pool) ==
    [value |-> pool[1 + (Twist(s) % Len(pool))], rng |-> Twist(s)]

\* the keyword groups in the order compute_readme_features fills the dict;
\* two of the five groups are kept, the first entries of each name list
KeywordGroups == <<"web", "ai">>

ENEMY_PREFIXES ==
    [generic |-> <<"Ancient", "Corrupted", "Dark">>,
     ai      |-> <<"Neural", "Quantum">>,
     web     |-> <<"Frontend", "Browser">>]

ENEMY_SUFFIXES ==
    [generic |-> <<"Spirit", "Entity", "Wraith">>,
     ai      |-> <<"Archon", "Network">>,
     web     |-> <<"Elemental", "Renderer">>]

\* [k for k, v in keyword_hits.items() if v > 0]
RECURSIVE ActiveFrom(_, _)
ActiveFrom(keyword_hits, i) ==
    IF i > Len(KeywordGroups) THEN <<>>
    ELSE (IF keyword_hits[KeywordGroups[i]] > 0
          THEN <<KeywordGroups[i]>> ELSE <<>>)
         \o ActiveFrom(keyword_hits, i + 1)

\* sort(key = hits, reverse = True): stable, the most hits first
RECURSIVE SortByHits(_, _)
SortByHits(keyword_hits, ks) ==
    IF ks = <<>> THEN <<>>
    ELSE LET i == CHOOSE i \in 1..Len(ks) :
                    /\ \A j \in 1..Len(ks) :
                           keyword_hits[ks[j]] <= keyword_hits[ks[i]]
                    /\ \A j \in 1..(i - 1) :
                           keyword_hits[ks[j]] < keyword_hits[ks[i]]
         IN  <<ks[i]>>
             \o SortByHits(keyword_hits,
                           SubSeq(ks, 1, i - 1) \o SubSeq(ks, i + 1, Len(ks)))

\* list * weight
RECURSIVE Repeat(_, _)
Repeat(seq, n) == IF n <= 0 THEN <<>> ELSE seq \o Repeat(seq, n - 1)

\* the themed names of the active keywords, each list max(1, hits * 2) times
RECURSIVE Themed(_, _, _)
Themed(table, keyword_hits, active_keywords) ==
    IF active_keywords = <<>> THEN <<>>
    ELSE Repeat(table[Head(active_keywords)],
                Max(1, keyword_hits[Head(active_keywords)] * 2))
         \o Themed(table, keyword_hits, Tail(active_keywords))

\* the pool a name part is chosen from: generic without themed names, else
\* mostly themed or mostly generic after a draw seeded with variation_seed
NamePool(table, themed, variation_seed) ==
    IF themed = <<>> THEN table.generic
    ELSE IF random_below_70(random_seed(variation_seed)).value
         THEN themed \o Take(table.generic, Len(themed) \div 3)
         ELSE table.generic \o Take(themed, Len(table.generic) \div 3)

\* _generate_enemy_name: the name and the generator state it leaves
generate_enemy_name(keyword_hits, seed, word_count) ==
    LET active_keywords == SortByHits(keyword_hits, ActiveFrom(keyword_hits, 1))
        prefix_pool == NamePool(ENEMY_PREFIXES,
                                Themed(ENEMY_PREFIXES, keyword_hits, active_keywords),
                                (seed + word_count) % 1000)
        suffix_pool == NamePool(ENEMY_SUFFIXES,
                                Themed(ENEMY_SUFFIXES, keyword_hits, active_keywords),
                                (seed + word_count + 100) % 1000)
        prefix_seed == (seed + word_count) % 10000
        suffix_seed == (seed + (word_count * 2) + 500) % 10000
        prefix == random_choice(random_seed(prefix_seed), prefix_pool)
        suffix == random_choice(random_seed(suffix_seed), suffix_pool)
    IN  [name |-> <<prefix.value, suffix.value>>, rng |-> suffix.rng]

\* the level is summed without the cap at 100
main_enemy_level_NoCap(features, stars, forks, activity_score, total_files, commit_count) ==
    1 + Min(activity_score \div 100, 30) + Min(total_files \div 10, 25)
      + Min(stars \div 100, 20) + Min(forks \div 50, 15)
      + Min(commit_count \div 5, 10) + Min(features.word_count \div 500, 5)

main_enemy_level(features, stars, forks, activity_score, total_files, commit_count) ==
    LET activity_level == Min(activity_score \div 100, 30)
        file_level == Min(total_files \div 10, 25)
        stars_level == Min(stars \div 100, 20)
        forks_level == Min(forks \div 50, 15)
        commit_level == Min(commit_count \div 5, 10)
        readme_bonus == Min(features.word_count \div 500, 5)
    IN  Min(1 + activity_level + file_level + stars_level + forks_level
              + commit_level + readme_bonus,
            100)

\* the creature image is drawn from the generator as the caller left it
generate_enemy_from_readme_Unseeded(rng, features, stars, forks, activity_score, total_files, commit_count) ==
    LET image == random_randint(rng, 1, 120)
        named == generate_enemy_name(features.keyword_hits, features.seed,
                                     features.word_count)
        level == main_enemy_level(features, stars, forks, activity_score,
                                  total_files, commit_count)
        speed == random_randint(named.rng, 5, 20)
    IN  [enemy |-> [creature_image_id |-> image.value,
                    name |-> named.name,
                    level |-> level,
                    hp |-> 50 + (level * 10) + (total_files * 2),
                    attack |-> 5 + (level * 2) + Min(stars \div 50, 20),
                    defense |-> 5 + level + Min(activity_score \div 200, 15),
                    speed |-> speed.value,
                    tags |-> ActiveFrom(features.keyword_hits, 1),
                    is_boss |-> FALSE],
         rng |-> speed.rng]

\* rng is the state of the generator when the function is called
generate_enemy_from_readme(rng, features, stars, forks, activity_score, total_files, commit_count) ==
    LET image == random_randint(random_seed(features.seed), 1, 120)
        named == generate_enemy_name(features.keyword_hits, features.seed,
                                     features.word_count)
        level == main_enemy_level(features, stars, forks, activity_score,
                                  total_files, commit_count)
        speed == random_randint(named.rng, 5, 20)
    IN  [enemy |-> [creature_image_id |-> image.value,
                    name |-> named.name,
                    level |-> level,
                    hp |-> 50 + (level * 10) + (total_files * 2),
                    attack |-> 5 + (level * 2) + Min(stars \div 50, 20),
                    defense |-> 5 + level + Min(activity_score \div 200, 15),
                    speed |-> speed.value,
                    tags |-> ActiveFrom(features.keyword_hits, 1),
                    is_boss |-> FALSE],
         rng |-> speed.rng]

\* the arguments tried: README features and repository statistics
EnemyArgs ==
    [features : [seed : {1, 42}, word_count : {0, 2600},
                 keyword_hits : [{"web", "ai"} -> {0, 2}]
                                    \cup {[web |-> 1, ai |-> 3]}],
     stars : {0, 150, 2500}, forks : {0, 800},
     activity_score : {0, 250, 3500}, total_files : {12, 300},
     commit_count : {0, 60}]

InitEnemy ==
    /\ RoomsIdle
    /\ PRIdle
    /\ CombatIdle
    /\ BuildIdle
    /\ GameIdle

\* one call, made with the generator in any state earlier draws left it in
GenerateEnemyFromReadme(args) ==
    /\ calls < MaxCalls
    /\ \E rng \in 0..15 :
         \E r \in {generate_enemy_from_readme(rng, args.features, args.stars,
                       args.forks, args.activity_score, args.total_files,
                       args.commit_count)} :
            ret' = [of |-> "generate_enemy_from_readme", args |-> args,
                    enemy |-> r.enemy]
    /\ calls' = calls + 1
    /\ UNCHANGED <<items, inventory, player, players, roomsVars, prVars,
                   combatVars, buildVars>>

\* a first build of a world, then refreshes of the unchanged repository
NextEnemy ==
    \/ \E args \in EnemyArgs : ret = NoReturn /\ GenerateEnemyFromReadme(args)
    \/ ret # NoReturn /\ GenerateEnemyFromReadme(ret.args)

SpecEnemy == InitEnemy /\ [][NextEnemy]_vars

(***************************************************************************)
(* C22: for all non-negative arguments generate_enemy_from_readme yields   *)
(* level = min(100, 1 + the six capped terms), which lies in 1..100,       *)
(* hp = 50 + level*10 + total_files*2,                                     *)
(* attack = 5 + level*2 + min(stars//50, 20),                              *)
(* defense = 5 + level + min(activity_score//200, 15), is_boss = false and *)
(* tags equal to the keyword groups with keyword_hits > 0.                 *)
(***************************************************************************)
C22_MainEnemyStats ==
    ret.of = "generate_enemy_from_readme" =>
        LET a == ret.args
            e == ret.enemy
            sum == 1 + Min(a.activity_score \div 100, 30)
                     + Min(a.total_files \div 10, 25)
                     + Min(a.stars \div 100, 20) + Min(a.forks \div 50, 15)
                     + Min(a.commit_count \div 5, 10)
                     + Min(a.features.word_count \div 500, 5)
        IN  /\ e.level = Min(100, sum)
            /\ e.level \in 1..100
            /\ e.hp = 50 + (e.level * 10) + (a.total_files * 2)
            /\ e.attack = 5 + (e.level * 2) + Min(a.stars \div 50, 20)
            /\ e.defense = 5 + e.level + Min(a.activity_score \div 200, 15)
            /\ e.is_boss = FALSE
            /\ {e.tags[i] : i \in 1..Len(e.tags)}
                 = {k \in DOMAIN a.features.keyword_hits :
                        a.features.keyword_hits[k] > 0}

\* a call whose six terms sum to 106, so that the cap at 100 decides
C22_Witness ==
    /\ ret.of = "generate_enemy_from_readme"
    /\ ret.args.stars = 2500 /\ ret.args.forks = 800
    /\ ret.args.activity_score = 3500 /\ ret.args.total_files = 300
    /\ ret.args.commit_count = 60 /\ ret.args.features.word_count = 2600
    /\ ret.enemy.level = 100
    /\ ret.enemy.tags = <<"web", "ai">>

(***************************************************************************)
(* C23: generate_enemy_from_readme is deterministic in its arguments: two  *)
(* calls with identical features and repository statistics produce enemies *)
(* with identical name, level, hp, attack, defense, tags, speed and        *)
(* creature_image_id, whatever state the process-global random generator   *)
(* was in before each call.                                                *)
(***************************************************************************)
SameArgsSameEnemy ==
    (/\ ret.of = "generate_enemy_from_readme"
     /\ ret'.of = "generate_enemy_from_readme"
     /\ ret'.args = ret.args)
        => ret'.enemy = ret.enemy

C23_Deterministic == [][SameArgsSameEnemy]_vars

\* a second call was made with the arguments of the first, for a README
\* with keyword hits
C23_Witness ==
    /\ calls = 2
    /\ ret.of = "generate_enemy_from_readme"
    /\ ret.enemy.tags # <<>>
    /\ ret.enemy.speed \in 5..20
    /\ ret.enemy.creature_image_id \in 1..120

(***************************************************************************)
(* Repository structure features                                           *)
(***************************************************************************)
\* path.split('/')[0]
RECURSIVE FirstSegment(_)
FirstSegment(path) ==
    IF path = <<>> \/ Head(path) = "/" THEN <<>>
    ELSE <<Head(path)>> \o FirstSegment(Tail(path))

\* every entry without a '/' is bucketed under its own path
StructureZone_OwnPath(e) ==
    IF Contains(e.path, <<"/">>) THEN FirstSegment(e.path) ELSE e.path

\* zone_name of an entry: the two branches of the loop differ in the
\* default for a path without '/'
StructureZone(e) ==
    IF e.is_dir
    THEN IF Contains(e.path, <<"/">>) THEN FirstSegment(e.path) ELSE e.path
    ELSE IF Contains(e.path, <<"/">>) THEN FirstSegment(e.path) ELSE S_root

\* d[k], or the value a missing key is created with
Lookup(d, k, zero) == IF k \in DOMAIN d THEN d[k] ELSE zero

\* d[k] = v, the key created when missing
Store(d, k, v) == [x \in DOMAIN d \cup {k} |-> IF x = k THEN v ELSE d[x]]

RECURSIVE StructureLoop(_, _, _)
StructureLoop(entries, i, f) ==
    IF i > Len(entries) THEN f
    ELSE LET e == entries[i]
             zone == StructureZone(e)
             old == Lookup(f.zones, zone, [files |-> 0, dirs |-> 0])
         IN  IF e.is_dir
             THEN StructureLoop(entries, i + 1,
                      [f EXCEPT !.total_dirs = @ + 1,
                                !.zones = Store(@, zone,
                                               [old EXCEPT !.dirs = @ + 1])])
             ELSE StructureLoop(entries, i + 1,
                      [f EXCEPT !.total_files = @ + 1,
                                !.files_by_extension =
                                    IF e.file_type # ""
                                    THEN Store(@, e.file_type,
                                               Lookup(@, e.file_type, 0) + 1)
                                    ELSE @,
                                !.zones = Store(@, zone,
                                               [old EXCEPT !.files = @ + 1])])

compute_structure_features(entries) ==
    StructureLoop(entries, 1,
                  [total_files |-> 0, total_dirs |-> 0,
                   files_by_extension |-> <<>>, zones |-> <<>>])

\* longest tree handed to compute_structure_features
MaxEntries == 3

\* top-level files and directories, nested ones, and a directory that is
\* itself called root
StructureEntries ==
    { [path |-> <<"f", "1">>, is_dir |-> FALSE, file_type |-> "py"],
      [path |-> S_src \o <<"/", "f", "1">>, is_dir |-> FALSE, file_type |-> "py"],
      [path |-> S_docs \o <<"/", "a", "/", "f", "2">>, is_dir |-> FALSE,
       file_type |-> ""],
      [path |-> S_src, is_dir |-> TRUE, file_type |-> ""],
      [path |-> S_src \o <<"/", "l", "i", "b">>, is_dir |-> TRUE, file_type |-> ""],
      [path |-> S_root, is_dir |-> TRUE, file_type |-> ""] }

InitStructure ==
    /\ \E n \in 0..MaxEntries : tree_entries \in [1..n -> StructureEntries]
    /\ gen_rooms = <<>>
    /\ gen_done = FALSE
    /\ PRIdle
    /\ CombatIdle
    /\ BuildIdle
    /\ GameIdle

ComputeStructureFeatures ==
    /\ ret = NoReturn
    /\ ret' = [of |-> "compute_structure_features",
               features |-> compute_structure_features(tree_entries)]
    /\ UNCHANGED <<items, inventory, player, players, calls, roomsVars, prVars,
                   combatVars, buildVars>>

SpecStructure == InitStructure /\ [][ComputeStructureFeatures]_vars

(***************************************************************************)
(* C24: compute_structure_features buckets every tree entry, file or       *)
(* directory alike, under its top-level zone (the path segment before the  *)
(* first '/', or the entry's own path when the path holds no '/');         *)
(* total_files and total_dirs count the file and directory entries, and    *)
(* the zones' file and dir counts sum to total_files and total_dirs.       *)
(***************************************************************************)
\* as stated (own_path): an entry without '/' is bucketed under its own
\* path; amended: a file without '/' is bucketed under "root", a directory
\* without '/' under its own path
ZoneStated(e, own_path) ==
    IF Contains(e.path, <<"/">>) THEN FirstSegment(e.path)
    ELSE IF e.is_dir \/ own_path THEN e.path ELSE S_root

FilesAt(z, own_path) ==
    Cardinality({i \in 1..Len(tree_entries) :
                    /\ ~tree_entries[i].is_dir
                    /\ ZoneStated(tree_entries[i], own_path) = z})

DirsAt(z, own_path) ==
    Cardinality({i \in 1..Len(tree_entries) :
                    /\ tree_entries[i].is_dir
                    /\ ZoneStated(tree_entries[i], own_path) = z})

RECURSIVE ZoneSum(_, _, _)
ZoneSum(zones, field, left) ==
    IF left = {} THEN 0
    ELSE LET z == CHOOSE z \in left : TRUE
         IN  zones[z][field] + ZoneSum(zones, field, left \ {z})

BucketedBy(own_path) ==
    ret.of = "compute_structure_features" =>
        LET f == ret.features
        IN  /\ DOMAIN f.zones
                 = {ZoneStated(tree_entries[i], own_path) :
                       i \in 1..Len(tree_entries)}
            /\ \A z \in DOMAIN f.zones :
                   /\ f.zones[z].files = FilesAt(z, own_path)
                   /\ f.zones[z].dirs = DirsAt(z, own_path)
            /\ f.total_files
                 = Cardinality({i \in 1..Len(tree_entries) :
                                   ~tree_entries[i].is_dir})
            /\ f.total_dirs
                 = Cardinality({i \in 1..Len(tree_entries) :
                                   tree_entries[i].is_dir})
            /\ ZoneSum(f.zones, "files", DOMAIN f.zones) = f.total_files
            /\ ZoneSum(f.zones, "dirs", DOMAIN f.zones) = f.total_dirs

\* C24 as stated
C24_OwnPathBuckets == BucketedBy(TRUE)

\* C24 amended
C24_RootBuckets == BucketedBy(FALSE)

\* a top-level file next to a directory called root, and a nested directory
C24_Witness ==
    /\ ret.of = "compute_structure_features"
    /\ S_root \in DOMAIN ret.features.zones
    /\ ret.features.zones[S_root].files = 1
    /\ ret.features.zones[S_root].dirs = 1
    /\ S_src \in DOMAIN ret.features.zones
    /\ ret.features.zones[S_src].dirs = 1

(***************************************************************************)
(* C25: generate_dungeon_rooms creates exactly one room, in input order,   *)
(* for each entry that is not a directory and whose path is not empty or   *)
(* whitespace-only; the danger of a room comes from the running count k of *)
(* such entries of its zone up to and including it: min(1 + k//5, 10),     *)
(* then +1 for a code extension or -1 (floor 1) for a doc extension, then  *)
(* +2 if the zone name contains 'test', then -1 (floor 1) if it contains   *)
(* 'doc'; the 12th of 12 'py' files under 'src' gets 3 + 1 = 4.            *)
(***************************************************************************)
RoomEntries ==
    {i \in 1..Len(tree_entries) :
        ~tree_entries[i].is_dir /\ Strip(tree_entries[i].path) # <<>>}

\* the zone of an entry: its directory, "root" for a top-level file
StatedZone(path) ==
    IF Contains(path, <<"/">>) THEN SubSeq(path, 1, LastSlash(path) - 1)
    ELSE <<"r", "o", "o", "t">>

\* the danger of the k-th entry of a zone
StatedDanger(k, ft, zone) ==
    LET base == IF 1 + (k \div 5) < 10 THEN 1 + (k \div 5) ELSE 10
        typed == IF ft \in {"py", "js", "ts", "java", "cpp", "c"} THEN base + 1
                 ELSE IF ft \in {"md", "txt"}
                      THEN (IF base - 1 < 1 THEN 1 ELSE base - 1)
                      ELSE base
        z == Lower(zone)
        tested == IF Contains(z, <<"t", "e", "s", "t">>) THEN typed + 2 ELSE typed
    IN  IF Contains(z, <<"d", "o", "c">>)
        THEN (IF tested - 1 < 1 THEN 1 ELSE tested - 1)
        ELSE tested

C25_OneRoomPerFile ==
    gen_done =>
        \A made \in {RoomEntries} :
        \A zone \in {[i \in 1..Len(tree_entries) |->
                         StatedZone(tree_entries[i].path)]} :
        \A entry \in {[j \in 1..Cardinality(made) |->
                          CHOOSE i \in made :
                              Cardinality({m \in made : m <= i}) = j]} :
            /\ Len(gen_rooms) = Cardinality(made)
            /\ \A j \in 1..Len(gen_rooms) :
                   LET i == entry[j]
                       k == Cardinality({m \in made :
                                            m <= i /\ zone[m] = zone[i]})
                   IN  /\ gen_rooms[j].file_path = tree_entries[i].path
                       /\ gen_rooms[j].zone_name = zone[i]
                       /\ gen_rooms[j].danger_level
                            = StatedDanger(k, tree_entries[i].file_type, zone[i])
            /\ (/\ Len(gen_rooms) >= 12
                /\ \A i \in 1..Len(tree_entries) :
                       /\ i \in made
                       /\ tree_entries[i].file_type = "py"
                       /\ zone[i] = <<"s", "r", "c">>)
               => gen_rooms[12].danger_level = 4

\* scenario B behind a skipped directory entry: the 12th room of 'src'
C25_Witness ==
    /\ gen_done
    /\ Len(gen_rooms) = 12
    /\ Len(tree_entries) = 13
    /\ tree_entries[1].is_dir
    /\ \A j \in 1..12 : /\ gen_rooms[j].zone_name = <<"s", "r", "c">>
                        /\ tree_entries[j + 1].file_type = "py"
    /\ gen_rooms[12].danger_level = 4
    /\ gen_rooms[12].file_path = tree_entries[13].path

(***************************************************************************)
(* C26: from a new player (level 1, xp 0), after any sequence of award_xp  *)
(* calls with non-negative grants and handle_defeat calls, the player's xp *)
(* satisfies 0 <= xp < level*100 and level >= 1; award_xp always           *)
(* terminates (its loop runs at most once per 100 xp held), and the level  *)
(* never decreases.                                                        *)
(***************************************************************************)
XpWithinLevel ==
    /\ player.level >= 1
    /\ 0 <= player.xp
    /\ player.xp < player.level * 100

\* the loop of award_xp ran level' - level times, each time taking at
\* least 100 xp from what the player held
LoopBounded ==
    ret.of = "award_xp" =>
        (player.level - ret.before.level) * 100 <= ret.before.xp + ret.grant

LevelNotLower == player'.level >= player.level

C26_XpWithinLevel ==
    /\ [](XpWithinLevel /\ LoopBounded)
    /\ [][LevelNotLower]_vars

\* the new player gained two levels with one grant of 300 and then lost a
\* battle
C26_Witness ==
    /\ ret.of = "handle_defeat"
    /\ ret.before.level = 3
    /\ ret.before.xp = 0
    /\ ret.before.attack = 14
    /\ calls = 2
    /\ player.level = 3
    /\ player.xp = 0

(***************************************************************************)
(* C27: for a player who starts with an empty inventory, after any         *)
(* sequence of victories, defeats, flees, equips, unequips and recycling,  *)
(* the number of unique items in the player's inventory never exceeds      *)
(* calculate_inventory_space(level) = 10 + (level//10)*10, and every       *)
(* inventory row has quantity >= 1.                                        *)
(***************************************************************************)
C27_InventoryWithinSpace ==
    /\ Cardinality({r \in inventory : r.player_id = player.id})
         <= 10 + ((player.level \div 10) * 10)
    /\ \A r \in inventory : r.quantity >= 1

\* a victory that brought the player from level 9 with ten items to level
\* 10 and an eleventh item, then one of the two units of an item was sold
C27_Witness ==
    /\ ret.of = "recycle_items"
    /\ ret.before.level = 10
    /\ Cardinality(ret.inventory_before) = 11
    /\ ret.list = <<<<2, 1>>>>
    /\ Cardinality(inventory) = 11
    /\ \E r \in inventory : r.item_id = 2 /\ r.quantity = 1

(***************************************************************************)
(* C28: after any sequence of successful build_repo_world runs for the     *)
(* same repository (a first build followed by refreshes) the world holds   *)
(* at most one quest for each (source_type, source_number) and at most one *)
(* PR boss enemy per pull request.                                         *)
(***************************************************************************)
AllBuildsSucceeded ==
    /\ Quiescent
    /\ \A t \in Threads : pc[t] = "done" => loc[t].result = "world"

C28_NoDuplicateQuests ==
    AllBuildsSucceeded =>
        /\ \A q1 \in quests, q2 \in quests :
              (/\ q1.world_id = q2.world_id
               /\ q1.source_type = q2.source_type
               /\ q1.source_number = q2.source_number) => q1.id = q2.id
        /\ \A e1 \in enemies, e2 \in enemies :
              (/\ e1.is_boss /\ e2.is_boss
               /\ e1.world_id = e2.world_id
               /\ e1.pr_number = e2.pr_number) => e1.id = e2.id

(***************************************************************************)
(* Quest board of a world whose pull requests are #12 and #1               *)
(***************************************************************************)
\* the world build_repo_world leaves for a pulls page listing #12 before #1
\* (the boss of #12 is created first), one issue and one file
InitQuests ==
    /\ worlds = {[id |-> 1, full_name |-> FullName, main_enemy_id |-> 1]}
    /\ enemies = {[id |-> 1, world_id |-> 1, level |-> 1, is_boss |-> FALSE,
                   pr_number |-> 0, hp |-> 62, attack |-> 7, defense |-> 6],
                  [id |-> 2, world_id |-> 1, level |-> 2, is_boss |-> TRUE,
                   pr_number |-> 12, hp |-> 120, attack |-> 14, defense |-> 7],
                  [id |-> 3, world_id |-> 1, level |-> 1, is_boss |-> TRUE,
                   pr_number |-> 1, hp |-> 110, attack |-> 12, defense |-> 6]}
    /\ rooms = {[id |-> 1, world_id |-> 1, zone_name |-> S_root,
                 file_path |-> <<"a">>, danger_level |-> 2, loot_quality |-> 1,
                 visited |-> FALSE]}
    /\ quests = {[id |-> 1, world_id |-> 1, source_type |-> "issue",
                  source_number |-> 3, difficulty |-> 5, status |-> "new"],
                 [id |-> 2, world_id |-> 1, source_type |-> "pr",
                  source_number |-> 12, difficulty |-> 2, status |-> "new"],
                 [id |-> 3, world_id |-> 1, source_type |-> "pr",
                  source_number |-> 1, difficulty |-> 1, status |-> "new"]}
    /\ next_id = [world |-> 2, enemy |-> 4, room |-> 2, quest |-> 4, item |-> 1]
    /\ player \in {PlayerAt(60, 5970, hp) : hp \in {2, 690}}
    /\ players = {player}
    /\ items = {}
    /\ inventory = {}
    /\ ret = NoReturn
    /\ calls = 0
    /\ pc = [t \in Threads |-> "idle"]
    /\ loc = [t \in Threads |-> NoLocals]
    /\ progress_dialog = "none"
    /\ auto_refresh = FALSE
    /\ view = 0
    /\ faults = 0
    /\ remote_tree = <<>>
    /\ RoomsIdle
    /\ PRIdle
    /\ CombatIdle

SpecQuests == InitQuests /\ [][NextPlay]_vars

(***************************************************************************)
(* C29: starting a quest of source_type 'pr' opens combat against the boss *)
(* generated for that same pull request (level equal to the quest's        *)
(* difficulty), also in worlds whose PR numbers are substrings of one      *)
(* another (#1 and #12); a quest of source_type 'issue' opens combat       *)
(* against the world's main enemy.                                         *)
(***************************************************************************)
\* the enemy a CombatDialog shows when it opens for e
ShownAs(e) ==
    [hp |-> e.hp, attack |-> e.attack, defense |-> e.defense,
     level |-> e.level, is_boss |-> e.is_boss]

C29_QuestMeetsItsBoss ==
    (dialog.kind = "quest" /\ battle = "ongoing" /\ dialog.turn_count = 0) =>
        \A q \in quests :
            q.id = dialog.id =>
                IF q.source_type = "pr"
                THEN /\ enemy.level = q.difficulty
                     /\ \E e \in enemies :
                          /\ e.is_boss
                          /\ e.world_id = q.world_id
                          /\ e.pr_number = q.source_number
                          /\ enemy = ShownAs(e)
                ELSE \E e \in enemies, w \in worlds :
                          /\ w.id = q.world_id
                          /\ e.id = w.main_enemy_id
                          /\ enemy = ShownAs(e)

(***************************************************************************)
(* C30: equip_item for an item that is not in the player's inventory is a  *)
(* no-op on that player's inventory (no row's equipped flag changes, an    *)
(* equipped item of the same equipment_type stays equipped); equip_item    *)
(* for an item without an equipment_type sets only that item's equipped    *)
(* flag and unequips nothing.                                              *)
(***************************************************************************)
EquipFrame ==
    \A player_id \in {1, 2}, item_id \in 1..5 :
        EquipItem(player_id, item_id) =>
            /\ (~\E r \in inventory : IsRow(r, player_id, item_id))
                 => \A r \in inventory : r.player_id = player_id => r \in inventory'
            /\ (\E i \in items : i.id = item_id /\ i.equipment_type = "")
                 => inventory'
                      = {IF IsRow(r, player_id, item_id)
                         THEN [r EXCEPT !.equipped = TRUE] ELSE r : r \in inventory}

C30_EquipFrame == [][EquipFrame]_vars

====
